---- MODULE Spec2Model ----
(***************************************************************************)
(* State-machine model of the Steam library image scraper                  *)
(* (src/steam_image_scraper.py): one invocation of                         *)
(* SteamImageScraper.scrape_images against a browser page, the network and *)
(* the output directory.                                                   *)
(*                                                                         *)
(* Strings are sequences of one-character strings, so that the string      *)
(* functions of the program (sanitize_filename, startswith, "in") are      *)
(* computed character by character.                                        *)
(***************************************************************************)
EXTENDS Integers, Sequences, FiniteSets, TLC

(***************************************************************************)
(* Bounds of the model.                                                    *)
(***************************************************************************)
\* Largest number of <picture> containers on the library page.
MaxPictures == 2
\* Largest document.body.scrollHeight, in units of the viewport height.
MaxHeight == 2
\* The configured max_scroll_attempts of the run.
MaxScrollAttempts == 1
\* Most files in the folder the uploader lists
MaxFiles == 3
\* Most buttons of the page whose text names an upload
MaxButtons == 2

(***************************************************************************)
(* Program constants.                                                      *)
(***************************************************************************)
\* filename[:100]
MaxNameLen == 100
\* max_wait_time = 300 and wait_interval = 3 of the login gate
max_wait_time == 300
wait_interval == 3

(***************************************************************************)
(* String literals of the program and of the modelled pages.               *)
(***************************************************************************)
Null == <<"<null>">>  \* JavaScript null / Python None; no string has a multi-character element
HTTP == <<"h","t","t","p">>
HTTPS == <<"h","t","t","p","s">>
PLACEHOLDER == <<"d","e","f","a","u","l","t","a","p","p","h","e","a","d","e","r",".","p","n","g">>
NO_ALT == <<"n","o","_","a","l","t">>
JPG == <<".","j","p","g">>
IMAGE_ == <<"i","m","a","g","e","_">>
SUMMARY_FILE == <<"d","o","w","n","l","o","a","d","_","s","u","m","m","a","r","y",".","j","s","o","n">>
PICTURE_SOURCE == <<"p","i","c","t","u","r","e","_","s","o","u","r","c","e">>
PICTURE_IMG == <<"p","i","c","t","u","r","e","_","i","m","g">>

URL_A == <<"h","t","t","p","s",":","/","/","x","/","a",".","p","n","g">>
URL_B == <<"h","t","t","p","s",":","/","/","x","/","b",".","p","n","g">>
URL_D == <<"h","t","t","p","s",":","/","/","x","/","d",".","p","n","g">>
URL_DEFAULT == <<"h","t","t","p","s",":","/","/","x","/","d","e","f","a","u","l","t","a","p","p","h","e","a","d","e","r",".","p","n","g">>
URL_REL == <<"/","i","m","g","/","c",".","p","n","g">>
HalfLife == <<"H","a","l","f","-","L","i","f","e">>
HalfLifeSp == <<"H","a","l","f","-","L","i","f","e"," ">>
Portal == <<"P","o","r","t","a","l">>
Doom == <<"D","o","o","m">>
Myst == <<"M","y","s","t">>

(***************************************************************************)
(* Python / JavaScript string primitives.                                  *)
(***************************************************************************)
\* Truthiness of a string-or-null value: null and '' are falsy.
Truthy(v) == v # Null /\ v # <<>>

\* a || b of JavaScript on string-or-null values
JsOr(a, b) == IF Truthy(a) THEN a ELSE b

\* str.startswith
StartsWith(s, p) == Len(s) >= Len(p) /\ SubSeq(s, 1, Len(p)) = p

\* sub in s
Contains(s, sub) ==
    \E k \in 0..(Len(s) - Len(sub)) : SubSeq(s, k + 1, k + Len(sub)) = sub

\* \s of the re module, as far as the modelled pages use it
IsSpace(c) == c \in {" ", "\t", "\n"}

RECURSIVE LStrip(_)
LStrip(s) == IF s # <<>> /\ IsSpace(Head(s)) THEN LStrip(Tail(s)) ELSE s

RECURSIVE RStrip(_)
RStrip(s) ==
    IF s # <<>> /\ IsSpace(s[Len(s)]) THEN RStrip(SubSeq(s, 1, Len(s) - 1)) ELSE s

\* str.strip()
Strip(s) == RStrip(LStrip(s))

\* The character class [<>:"/\\|?*] of sanitize_filename
UnsafeChars == {"<", ">", ":", "\"", "/", "\\", "|", "?", "*"}

\* re.sub(r'[<>:"/\\|?*]', '_', filename)
RECURSIVE ReplaceUnsafe(_)
ReplaceUnsafe(s) ==
    IF s = <<>> THEN <<>>
    ELSE <<IF Head(s) \in UnsafeChars THEN "_" ELSE Head(s)>> \o ReplaceUnsafe(Tail(s))

\* re.sub(r'\s+', '_', s): every maximal run of whitespace becomes one '_'
RECURSIVE CollapseSpaces(_)
CollapseSpaces(s) ==
    IF s = <<>> THEN <<>>
    ELSE IF IsSpace(Head(s)) THEN <<"_">> \o CollapseSpaces(LStrip(s))
    ELSE <<Head(s)>> \o CollapseSpaces(Tail(s))

\* SteamImageScraper.sanitize_filename
sanitize_filename(filename) ==
    LET f == CollapseSpaces(Strip(ReplaceUnsafe(filename)))
    IN  IF Len(f) > MaxNameLen THEN SubSeq(f, 1, MaxNameLen) ELSE f

\* Decimal digits of a natural number, as a string
RECURSIVE Digits(_)
Digits(n) ==
    LET d == <<"0","1","2","3","4","5","6","7","8","9">>[(n % 10) + 1]
    IN  IF n < 10 THEN <<d>> ELSE Digits(n \div 10) \o <<d>>

\* str(hash(src))[-8:]: the interpreter's string hash is salted per process; the
\* model fixes one salt, under which the hash is a function of the string alone.
UrlHash(src) ==
    LET h == Digits(10000019 * (Len(src) + 1))
    IN  IF Len(h) > 8 THEN SubSeq(h, Len(h) - 7, Len(h)) ELSE h

(***************************************************************************)
(* The library page: a sequence of <picture> containers in document order. *)
(* A container has at most one first <source> (hasSource, srcset) and at   *)
(* most one <img> (hasImg, src, data_src, alt, title); an attribute that   *)
(* is not set is Null.                                                     *)
(***************************************************************************)
Picture(hasSource, srcset, hasImg, src, data_src, alt, title) ==
    [hasSource |-> hasSource, srcset |-> srcset, hasImg |-> hasImg, src |-> src,
     data_src |-> data_src, alt |-> alt, title |-> title]

\* The containers the modelled library pages are made of.
PicHalfLife == Picture(TRUE, URL_A \o <<" ", "2", "x">>, TRUE, Null, Null, HalfLife, Null)
PicPortal == Picture(TRUE, URL_DEFAULT, TRUE, Null, Null, Portal, Null)
PicHalfLifeSp == Picture(FALSE, Null, TRUE, URL_B, Null, HalfLifeSp, Null)
PicNoSrc == Picture(TRUE, Null, TRUE, Null, Null, Doom, Null)
PicRelative == Picture(FALSE, Null, TRUE, Null, URL_REL, Doom, Null)
PicTitled == Picture(FALSE, Null, TRUE, URL_D, Null, Null, Myst)
PicBare == Picture(FALSE, Null, FALSE, Null, Null, Null, Null)

Catalogue ==
    {PicHalfLife, PicPortal, PicHalfLifeSp, PicNoSrc, PicRelative, PicTitled, PicBare}

\* Every page of at most MaxPictures containers
Pages == UNION {[1..n -> Catalogue] : n \in 0..MaxPictures}

\* srcset.split(/[\s,]/)[0]
RECURSIVE FirstToken(_)
FirstToken(s) ==
    IF s = <<>> \/ IsSpace(Head(s)) \/ Head(s) = "," THEN <<>>
    ELSE <<Head(s)>> \o FirstToken(Tail(s))

\* One record of the extracted list (the dict extract_images builds; srcset and
\* media are carried by the program but never read after extraction)
ImgInfo(src, alt, title, parent) ==
    [src |-> src, alt |-> alt, title |-> title, parent |-> parent]

\* A faulty variant of ExtractPicture: the inline image is read first and the
\* <source> only when the image gives no URL
ExtractPictureImgFirst(p) ==
    LET gameName == IF p.hasImg THEN JsOr(p.alt, NO_ALT) ELSE NO_ALT
        fromImg == ImgInfo(JsOr(p.src, p.data_src), gameName, JsOr(p.title, <<>>),
                           PICTURE_IMG)
        fromSource == ImgInfo(FirstToken(p.srcset), gameName, <<>>, PICTURE_SOURCE)
    IN  IF p.hasImg /\ Truthy(JsOr(p.src, p.data_src)) THEN <<fromImg>>
        ELSE IF p.hasSource /\ Truthy(p.srcset) THEN <<fromSource>>
        ELSE IF p.hasImg THEN <<fromImg>> ELSE <<>>

\* The body of pictureElements.forEach: the records one container contributes
ExtractPicture(p) ==
    LET gameName == IF p.hasImg THEN JsOr(p.alt, NO_ALT) ELSE NO_ALT
        fromImg == ImgInfo(JsOr(p.src, p.data_src), gameName, JsOr(p.title, <<>>),
                           PICTURE_IMG)
    IN  IF p.hasSource
        THEN IF Truthy(p.srcset)
             THEN <<ImgInfo(FirstToken(p.srcset), gameName, <<>>, PICTURE_SOURCE)>>
             ELSE IF p.hasImg THEN <<fromImg>> ELSE <<>>
        ELSE IF p.hasImg THEN <<fromImg>> ELSE <<>>

\* SteamImageScraper.extract_images
RECURSIVE extract_images(_)
extract_images(page) ==
    IF page = <<>> THEN <<>>
    ELSE ExtractPicture(Head(page)) \o extract_images(Tail(page))

(***************************************************************************)
(* download_image and _check_if_image_exists.                              *)
(***************************************************************************)
\* filename_base of download_image and _check_if_image_exists
FilenameBase(img_info) ==
    LET base == IF img_info.alt # NO_ALT THEN img_info.alt ELSE img_info.title
    IN  IF base = <<>> THEN IMAGE_ \o UrlHash(img_info.src) ELSE base

\* A faulty variant of FilePath: the file keeps the extension of the source URL
\* instead of the fixed .jpg
FilePathSourceExt(img_info) ==
    sanitize_filename(FilenameBase(img_info))
        \o (IF Len(img_info.src) >= 4
            THEN SubSeq(img_info.src, Len(img_info.src) - 3, Len(img_info.src))
            ELSE JPG)

\* filepath, relative to the output folder
FilePath(img_info) == sanitize_filename(FilenameBase(img_info)) \o JPG

\* not src or (not src.startswith("http") and not src.startswith("https"))
InvalidUrl(src) ==
    ~Truthy(src) \/ (~StartsWith(src, HTTP) /\ ~StartsWith(src, HTTPS))

\* "defaultappheader.png" in src
IsPlaceholder(src) == Contains(src, PLACEHOLDER)

\* What the network and the image decoder answer to one fetch: "ok", or "error"
\* for everything that raises inside the try block (status, timeout, decoding).
NetAnswers == {"ok", "error"}

\* A faulty variant of download_image: the placeholder marker is not tested
download_image_no_marker(img_info, net) ==
    IF InvalidUrl(img_info.src)
    THEN [ok |-> FALSE, fetched |-> FALSE, saved |-> FALSE]
    ELSE IF net = "ok"
    THEN [ok |-> TRUE, fetched |-> TRUE, saved |-> TRUE]
    ELSE [ok |-> FALSE, fetched |-> TRUE, saved |-> FALSE]

\* SteamImageScraper.download_image: the value returned, whether requests.get
\* was issued and whether the file was saved, given the answer the network
\* would give.
download_image(img_info, net) ==
    IF InvalidUrl(img_info.src)
    THEN [ok |-> FALSE, fetched |-> FALSE, saved |-> FALSE]
    ELSE IF IsPlaceholder(img_info.src)
    THEN [ok |-> FALSE, fetched |-> FALSE, saved |-> FALSE]
    ELSE IF net = "ok"
    THEN [ok |-> TRUE, fetched |-> TRUE, saved |-> TRUE]
    ELSE [ok |-> FALSE, fetched |-> TRUE, saved |-> FALSE]

\* The output directory is a function from file name to content.
EmptyDir == [f \in {} |-> <<>>]

\* A faulty variant of WriteFile: an existing file is kept, not overwritten
WriteFileKeep(dir, name, content) ==
    [f \in (DOMAIN dir) \cup {name} |-> IF f \in DOMAIN dir THEN dir[f] ELSE content]

WriteFile(dir, name, content) ==
    [f \in (DOMAIN dir) \cup {name} |-> IF f = name THEN content ELSE dir[f]]

\* A faulty variant of _check_if_image_exists: the directory is not consulted
check_never_exists(dir, img_info) == FALSE

\* SteamImageScraper._check_if_image_exists
check_if_image_exists(dir, img_info) == FilePath(img_info) \in DOMAIN dir

(***************************************************************************)
(* TierMakerUploader: the files handed to the upload control.              *)
(***************************************************************************)
JPEG == <<".","j","p","e","g">>
PNG == <<".","p","n","g">>
GIF == <<".","g","i","f">>
WEBP == <<".","w","e","b","p">>
\* image_extensions of get_image_files
image_extensions == {JPG, JPEG, PNG, GIF, WEBP}

UpperCase ==
    <<"A","B","C","D","E","F","G","H","I","J","K","L","M",
      "N","O","P","Q","R","S","T","U","V","W","X","Y","Z">>
LowerCase ==
    <<"a","b","c","d","e","f","g","h","i","j","k","l","m",
      "n","o","p","q","r","s","t","u","v","w","x","y","z">>

\* str.lower, on one character and on a string
LowerChar(c) ==
    IF \E k \in 1..Len(UpperCase) : UpperCase[k] = c
    THEN LowerCase[CHOOSE k \in 1..Len(UpperCase) : UpperCase[k] = c]
    ELSE c
Lower(s) == [k \in 1..Len(s) |-> LowerChar(s[k])]

\* str.endswith
EndsWith(s, suffix) ==
    /\ Len(s) >= Len(suffix)
    /\ SubSeq(s, Len(s) - Len(suffix) + 1, Len(s)) = suffix

\* A faulty variant of HasImageExtension: the name is not lower-cased
HasImageExtensionCaseSensitive(filename) ==
    \E ext \in image_extensions : EndsWith(filename, ext)

\* any(filename.lower().endswith(ext) for ext in image_extensions)
HasImageExtension(filename) ==
    \E ext \in image_extensions : EndsWith(Lower(filename), ext)

\* os.path.join(folder, filename) for a relative filename
PathJoin(folder, filename) == folder \o <<"/">> \o filename

\* The working directory of the process
CWD == <<"/","w">>

\* os.path.abspath: a relative path is taken from the working directory
abspath(path) ==
    IF path # <<>> /\ path[1] = "/" THEN path ELSE CWD \o <<"/">> \o path

\* The loop of get_image_files over os.listdir (lines 99-102)
RECURSIVE ImagePaths(_, _)
ImagePaths(folder, listing) ==
    IF listing = <<>> THEN <<>>
    ELSE (IF HasImageExtension(Head(listing))
          THEN <<PathJoin(folder, Head(listing))>> ELSE <<>>)
         \o ImagePaths(folder, Tail(listing))

\* get_image_files: nothing for a missing folder, otherwise the recognised
\* names of the listing, joined to the folder
get_image_files(folder, exists, listing) ==
    IF ~exists THEN <<>> ELSE ImagePaths(folder, listing)

\* [os.path.abspath(img_path) for img_path in image_files]
AbsolutePaths(image_files) == [k \in 1..Len(image_files) |-> abspath(image_files[k])]

\* '\n'.join(paths)
RECURSIVE JoinLines(_)
JoinLines(paths) ==
    IF paths = <<>> THEN <<>>
    ELSE IF Len(paths) = 1 THEN paths[1]
    ELSE paths[1] \o <<"\n">> \o JoinLines(Tail(paths))

\* The files a file control takes from the keys it is sent: one path per line
RECURSIVE SplitLines(_, _)
SplitLines(keys, current) ==
    IF keys = <<>> THEN <<current>>
    ELSE IF Head(keys) = "\n" THEN <<current>> \o SplitLines(Tail(keys), <<>>)
    ELSE SplitLines(Tail(keys), Append(current, Head(keys)))

\* The orders in which os.listdir can return a set of names
Listings(names) ==
    {l \in [1..Cardinality(names) -> names] :
        \A j, k \in 1..Cardinality(names) : j # k => l[j] # l[k]}

(***************************************************************************)
(* State.                                                                  *)
(***************************************************************************)
VARIABLES
    pc,                   \* position of the controlling thread in scrape_images
    url,                  \* self.url
    driver_open,          \* the browser session exists and was not quit
    login_wall,           \* "login" occurred in the body class at the last read
    doc_height,           \* the page's document.body.scrollHeight
    scrollY,              \* the page's scroll offset
    waited_time,          \* local of the login wait
    attempts,             \* locals of _scroll_to_load_all_content
    current_scroll,
    last_height,
    extracted,            \* extract_images has returned
    all_images,           \* the extracted list
    page_height,          \* locals of the download passes
    i,
    retry_index,
    successful_downloads,
    failed_downloads,
    failed_images,
    outcomes,             \* every call of download_image so far, in call order
    result,               \* the value returned to the caller
    disk,                 \* the output directory
    summary_writes        \* times this invocation opened the summary file for writing


pageVars == <<login_wall, doc_height, scrollY>>
scrollLocals == <<attempts, current_scroll, last_height>>
passLocals ==
    <<extracted, all_images, page_height, i, retry_index, successful_downloads, failed_downloads,
      failed_images, outcomes>>
dirVars == <<disk, summary_writes>>

VARIABLES
    u_pc,                 \* position of the thread in upload_images_to_tiermaker
    images_folder,        \* TierMakerUploader.images_folder
    u_driver,             \* the uploader's browser session: none, failed, open
    ctl_present,          \* the page has an element with id "upload-image-input"
    css_present,          \* the page has an input[type="file"][accept*="image"]
    file_input,           \* local: the handle of the upload control
    styled,               \* the handles whose style was forced visible
    located,              \* the acquisition steps that obtained a handle, in order
    buttons,              \* local: the candidate buttons, each displayed or not
    btn_idx,              \* buttons of the loop already handled
    clicked,              \* the candidates clicked so far, in order
    dumped,               \* the listing of the page's inputs was run
    listing,              \* what os.listdir returned
    image_files,          \* local: the result of get_image_files
    submitted,            \* the send_keys calls the control accepted, in order
    batch_raised,         \* the batch attempt raised
    fallback_raised,      \* a send_keys of the one-by-one loop raised
    fb_idx,               \* paths of the one-by-one loop already sent
    u_result,             \* what upload_images_to_tiermaker gave its caller
    output_folder,        \* SteamImageScraper.output_folder
    disk_exists,          \* the directory named output_folder exists
    other_folder,         \* the directory "steam_images" when output_folder is another
    entry_point,          \* the workflow entry point: none, cli, gui
    w_pc,                 \* position of the thread in the workflow
    is_running,           \* SteamTierMakerGUI.is_running
    reported,             \* the workflow displayed the counts of the scrape
    w_result              \* what the workflow gave its caller

pageCtl == <<ctl_present, css_present>>
acqVars == <<file_input, styled, located, buttons, btn_idx, clicked, dumped>>
sendVars == <<listing, image_files, submitted, batch_raised, fallback_raised, fb_idx>>
uploadVars == <<u_pc, images_folder, u_driver, pageCtl, acqVars, sendVars, u_result>>
fsVars == <<output_folder, disk_exists, other_folder>>
workflowVars == <<entry_point, w_pc, is_running, reported, w_result>>
scraperVars ==
    <<pc, url, driver_open, login_wall, doc_height, scrollY, waited_time, attempts,
      current_scroll, last_height, extracted, all_images, page_height, i, retry_index,
      successful_downloads, failed_downloads, failed_images, outcomes, result, disk,
      summary_writes>>

VARIABLES
    e_pc,                 \* whether a page is open for calls of extract_images
    e_page,               \* that page: its <picture> containers in document order
    e_calls               \* what the calls of extract_images on it returned, in order

extractVars == <<e_pc, e_page, e_calls>>

VARIABLES
    threads,              \* the workers start_process has started, in order: each
                          \* its position in run_workflow and what happened to it
    after_calls,          \* finish_process callbacks posted with root.after(0, ...)
    run_button,           \* state of the Start button
    stop_button           \* state of the Stop button

guiVars == <<threads, after_calls, run_button, stop_button>>

VARIABLES
    log_queue,            \* self.log_queue: the entries put and not yet taken
    log_text,             \* the lines of the log widget that exists now
    shown,                \* every line ever inserted into a log widget, in order
    put_count,            \* how many entries have been put on the queue
    main_pc,              \* the main thread: in the event loop or inside a poll
    message,              \* local of process_log_queue: the entry just taken
    chains                \* process_log_queue callbacks scheduled with root.after

logVars == <<log_queue, log_text, shown, put_count, main_pc, message, chains>>
auxVars == <<extractVars, guiVars, logVars>>
vars == <<scraperVars, uploadVars, fsVars, workflowVars, auxVars>>

\* No page is open for calls of extract_images alone
ExtractIdle ==
    /\ e_pc = "idle"
    /\ e_page = <<>>
    /\ e_calls = <<>>

\* The window as setup_gui leaves it, no worker started
GuiIdle ==
    /\ threads = <<>>
    /\ after_calls = 0
    /\ run_button = "normal"
    /\ stop_button = "disabled"

\* The log queue empty and not polled
LogIdle ==
    /\ log_queue = <<>>
    /\ log_text = <<>>
    /\ shown = <<>>
    /\ put_count = 0
    /\ main_pc = "idle"
    /\ message = 0
    /\ chains = 0

LIBRARY_URL == <<"h","t","t","p","s",":","/","/","s","/","g","a","m","e","s">>

\* window.innerHeight: the unit in which heights and offsets are counted
window_height == 1

\* The statistics dict of scrape_images. kind is "pending" until the method
\* returns, "dict" for a returned dict and "None" for a bare return; error tells
\* whether the dict has an "error" key.
Stats(kind, total, successful, failed, games, success, error) ==
    [kind |-> kind, total_images_found |-> total, successful_downloads |-> successful,
     failed_downloads |-> failed, failed_games |-> games, success |-> success,
     error |-> error]

Pending == Stats("pending", 0, 0, 0, <<>>, FALSE, FALSE)
NoneResult == Stats("None", 0, 0, 0, <<>>, FALSE, FALSE)
ZeroResult == Stats("dict", 0, 0, 0, <<>>, FALSE, FALSE)
ErrorResult == Stats("dict", 0, 0, 0, <<>>, FALSE, TRUE)

\* The content of download_summary.json (counts and failed games of the dict)
SummaryContent(total, successful, failed, games) ==
    <<"summary", total, successful, failed, games>>
PartialSummary == <<"partial">>
\* The content of a file another run wrote
Foreign == <<"foreign">>

\* The names another run of the scraper can leave in the output directory
ExternalNames ==
    {FilePath(r) : r \in {ExtractPicture(p)[1] : p \in {q \in Catalogue : ExtractPicture(q) # <<>>}}}
        \cup {SUMMARY_FILE}

Min(a, b) == IF a <= b THEN a ELSE b
Max(a, b) == IF a >= b THEN a ELSE b

\* window.scrollTo(0, y): the browser keeps the offset within the document
ScrollTo(y) == Max(0, Min(y, doc_height - window_height))

\* The default of TierMakerUploader(images_folder=...) and of the configuration
STEAM_IMAGES == <<"s","t","e","a","m","_","i","m","a","g","e","s">>
\* Another folder a configuration file can name as output_folder
MY_IMAGES == <<"m","y","_","i","m","a","g","e","s">>

\* A directory: whether it exists and, by name, the content of its files
Folder(exists, files) == [exists |-> exists, files |-> files]
MissingFolder == Folder(FALSE, EmptyDir)

\* The uploader's page, locals and records before upload_images_to_tiermaker
\* has run
UploadFresh ==
    /\ u_driver = "none"
    /\ ctl_present = FALSE
    /\ css_present = FALSE
    /\ file_input = "none"
    /\ styled = {}
    /\ located = <<>>
    /\ buttons = <<>>
    /\ btn_idx = 0
    /\ clicked = <<>>
    /\ dumped = FALSE
    /\ listing = <<>>
    /\ image_files = <<>>
    /\ submitted = <<>>
    /\ batch_raised = FALSE
    /\ fallback_raised = FALSE
    /\ fb_idx = 0
    /\ u_result = "pending"

\* No workflow entry point is running
WorkflowIdle ==
    /\ entry_point = "none"
    /\ w_pc = "idle"
    /\ is_running = FALSE
    /\ reported = FALSE
    /\ w_result = "pending"

\* The page and the locals of scrape_images before the method has run
ScraperFresh ==
    /\ login_wall = FALSE
    /\ doc_height = 1
    /\ scrollY = 0
    /\ waited_time = 0
    /\ attempts = 0
    /\ current_scroll = 0
    /\ last_height = 0
    /\ extracted = FALSE
    /\ all_images = <<>>
    /\ page_height = 0
    /\ i = 0
    /\ retry_index = 0
    /\ successful_downloads = 0
    /\ failed_downloads = 0
    /\ failed_images = <<>>
    /\ outcomes = <<>>
    /\ result = Pending
    /\ summary_writes = 0

Init ==
    /\ pc = "start"
    /\ driver_open = TRUE
    /\ ScraperFresh
    /\ url \in {<<>>, LIBRARY_URL}
    /\ disk = EmptyDir
    /\ output_folder = STEAM_IMAGES
    /\ disk_exists = TRUE
    /\ other_folder = MissingFolder
    /\ images_folder = STEAM_IMAGES
    /\ u_pc = "idle"
    /\ UploadFresh
    /\ WorkflowIdle
    /\ ExtractIdle
    /\ GuiIdle
    /\ LogIdle

(***************************************************************************)
(* scrape_images, one action per step of the method.                       *)
(***************************************************************************)
\* lines 265-273: no URL configured; returns before the try block
ReturnNoUrl ==
    /\ pc = "start"
    /\ url = <<>>
    /\ result' = ZeroResult
    /\ pc' = "returned"
    /\ UNCHANGED <<url, driver_open, pageVars, waited_time, scrollLocals, passLocals,
                   dirVars>>
    /\ UNCHANGED <<uploadVars, fsVars, workflowVars, auxVars>>

\* A faulty variant of ReturnClosing: the value is returned and the browser
\* session is left as it is
ReturnLeavingOpen(value) ==
    /\ result' = value
    /\ driver_open' = driver_open
    /\ pc' = "returned"

\* finally: self.close(), with the value returned
ReturnClosing(value) ==
    /\ result' = value
    /\ driver_open' = FALSE
    /\ pc' = "returned"

\* lines 276-285: driver.get, the pause and the first read of the body class
Navigate ==
    /\ pc = "start"
    /\ url # <<>>
    /\ \E wall \in BOOLEAN, h \in 1..MaxHeight :
        /\ login_wall' = wall
        /\ doc_height' = h
        /\ pc' = IF wall THEN "login_wait" ELSE "scroll"
    /\ scrollY' = 0
    /\ waited_time' = 0
    /\ UNCHANGED <<url, driver_open, scrollLocals, passLocals, result, dirVars>>
    /\ UNCHANGED <<uploadVars, fsVars, workflowVars, auxVars>>

\* lines 295-305: one iteration of the login wait
LoginPoll ==
    /\ pc = "login_wait"
    /\ waited_time < max_wait_time
    /\ waited_time' = waited_time + wait_interval
    /\ \E wall \in BOOLEAN :
        /\ login_wall' = wall
        /\ pc' = IF ~wall \/ waited_time' >= max_wait_time
                 THEN "login_final" ELSE "login_wait"
    /\ UNCHANGED <<url, driver_open, doc_height, scrollY, scrollLocals, passLocals,
                   result, dirVars>>
    /\ UNCHANGED <<uploadVars, fsVars, workflowVars, auxVars>>

\* A faulty variant of LoginFinal: the run goes on to the content whatever the
\* final read of the body class says
LoginFinalProceeds ==
    /\ pc = "login_final"
    /\ \E wall \in BOOLEAN : login_wall' = wall
    /\ pc' = "scroll"
    /\ waited_time' = 0
    /\ UNCHANGED <<url, driver_open, result, doc_height, scrollY, scrollLocals, passLocals,
                   dirVars>>
    /\ UNCHANGED <<uploadVars, fsVars, workflowVars, auxVars>>

\* lines 307-315: the final check; a bare return when the wall is still there.
\* waited_time is not read after the wait.
LoginFinal ==
    /\ pc = "login_final"
    /\ \E wall \in BOOLEAN :
        /\ login_wall' = wall
        /\ IF wall
           THEN ReturnClosing(NoneResult)
           ELSE /\ pc' = "scroll"
                /\ UNCHANGED <<result, driver_open>>
    /\ waited_time' = 0
    /\ UNCHANGED <<url, doc_height, scrollY, scrollLocals, passLocals, dirVars>>
    /\ UNCHANGED <<uploadVars, fsVars, workflowVars, auxVars>>

\* lines 100-107 of _scroll_to_load_all_content: the reads before the loop
ScrollBegin ==
    /\ pc = "scroll"
    /\ last_height' = doc_height
    /\ current_scroll' = 0
    /\ attempts' = 0
    /\ pc' = "scroll_loop"
    /\ UNCHANGED <<url, driver_open, pageVars, waited_time, passLocals, result, dirVars>>
    /\ UNCHANGED <<uploadVars, fsVars, workflowVars, auxVars>>

\* A faulty variant of ScrollStep: new content restarts the count of attempts
ScrollStepResetOnGrowth ==
    /\ pc = "scroll_loop"
    /\ IF attempts < MaxScrollAttempts
       THEN \E new_height \in 1..MaxHeight :
               /\ doc_height' = new_height
               /\ IF current_scroll + window_height >= new_height
                  THEN /\ scrollY' = 0
                       /\ pc' = "extract"
                       /\ attempts' = 0
                       /\ current_scroll' = 0
                       /\ last_height' = 0
                  ELSE /\ scrollY' = Max(0, Min(current_scroll + window_height,
                                                new_height - window_height))
                       /\ pc' = "scroll_loop"
                       /\ attempts' = IF new_height > last_height THEN 0 ELSE attempts + 1
                       /\ current_scroll' = current_scroll + window_height
                       /\ last_height' = Max(last_height, new_height)
       ELSE /\ scrollY' = 0
            /\ pc' = "extract"
            /\ attempts' = 0
            /\ current_scroll' = 0
            /\ last_height' = 0
            /\ UNCHANGED doc_height
    /\ UNCHANGED <<url, driver_open, login_wall, waited_time, passLocals, result, dirVars>>
    /\ UNCHANGED <<uploadVars, fsVars, workflowVars, auxVars>>

\* lines 109-133: the loop test and, while it holds, one iteration (scroll one
\* viewport further, pause while the page loads or drops content, re-read the
\* height); on leaving the loop, the scroll back to the top. The locals end
\* with the method.
ScrollStep ==
    /\ pc = "scroll_loop"
    /\ IF attempts < MaxScrollAttempts
       THEN \E new_height \in 1..MaxHeight :
               /\ doc_height' = new_height
               /\ IF current_scroll + window_height >= new_height
                  THEN /\ scrollY' = 0
                       /\ pc' = "extract"
                       /\ attempts' = 0
                       /\ current_scroll' = 0
                       /\ last_height' = 0
                  ELSE /\ scrollY' = Max(0, Min(current_scroll + window_height,
                                                new_height - window_height))
                       /\ pc' = "scroll_loop"
                       /\ attempts' = attempts + 1
                       /\ current_scroll' = current_scroll + window_height
                       /\ last_height' = Max(last_height, new_height)
       ELSE /\ scrollY' = 0
            /\ pc' = "extract"
            /\ attempts' = 0
            /\ current_scroll' = 0
            /\ last_height' = 0
            /\ UNCHANGED doc_height
    /\ UNCHANGED <<url, driver_open, login_wall, waited_time, passLocals, result, dirVars>>
    /\ UNCHANGED <<uploadVars, fsVars, workflowVars, auxVars>>

\* A faulty variant of Extract: the test for an empty list is missing, so the
\* run goes on to the (empty) passes and the summary
ExtractNoEmptyCheck ==
    /\ pc = "extract"
    /\ \E page \in Pages :
        /\ all_images' = extract_images(page)
        /\ extracted' = TRUE
        /\ pc' = IF Len(all_images') = 0 THEN "finish" ELSE "pass1"
    /\ page_height' = doc_height
    /\ i' = 0
    /\ retry_index' = 0
    /\ successful_downloads' = 0
    /\ failed_downloads' = 0
    /\ failed_images' = <<>>
    /\ UNCHANGED <<url, driver_open, pageVars, waited_time, scrollLocals, outcomes,
                   result, dirVars>>
    /\ UNCHANGED <<uploadVars, fsVars, workflowVars, auxVars>>

\* lines 322-343: extraction from the page as it is now; an empty list ends the
\* run, otherwise the page height is read and the counters are initialised
Extract ==
    /\ pc = "extract"
    /\ \E page \in Pages :
        /\ all_images' = extract_images(page)
        /\ extracted' = TRUE
        /\ IF Len(all_images') = 0
           THEN /\ ReturnClosing(ZeroResult)
                /\ UNCHANGED page_height
           ELSE /\ pc' = "pass1"
                /\ page_height' = doc_height
                /\ UNCHANGED <<result, driver_open>>
    /\ i' = 0
    /\ retry_index' = 0
    /\ successful_downloads' = 0
    /\ failed_downloads' = 0
    /\ failed_images' = <<>>
    /\ UNCHANGED <<url, pageVars, waited_time, scrollLocals, outcomes, dirVars>>
    /\ UNCHANGED <<uploadVars, fsVars, workflowVars, auxVars>>

\* int(page_height * download_progress), download_progress = (index + 1) / total
TargetScroll(index) == (page_height * (index + 1)) \div Len(all_images)

\* The record kept of one call of download_image
Outcome(index, pass, r) ==
    [index |-> index, pass |-> pass, ok |-> r.ok, fetched |-> r.fetched, saved |-> r.saved]

\* The effect of one call of download_image on the directory and on the call log
Download(index, pass, img_info, r) ==
    /\ disk' = IF r.saved THEN WriteFile(disk, FilePath(img_info), img_info.src) ELSE disk
    /\ outcomes' = Append(outcomes, Outcome(index, pass, r))

\* A faulty variant of CountPass1: every item of pass 1 enters the retry set
CountPass1RetryAll(r, index, img_info) ==
    /\ successful_downloads' = IF r.ok THEN successful_downloads + 1 ELSE successful_downloads
    /\ failed_downloads' = IF r.ok THEN failed_downloads ELSE failed_downloads + 1
    /\ failed_images' = Append(failed_images, [index |-> index, img_info |-> img_info])

\* if self.download_image(img_info): ... else: ... of pass 1 (lines 364-369)
CountPass1(r, index, img_info) ==
    /\ successful_downloads' = IF r.ok THEN successful_downloads + 1 ELSE successful_downloads
    /\ failed_downloads' = IF r.ok THEN failed_downloads ELSE failed_downloads + 1
    /\ failed_images' = IF r.ok THEN failed_images
                        ELSE Append(failed_images, [index |-> index, img_info |-> img_info])

\* lines 348-380: one iteration of pass 1; after the last one, the test that
\* starts the retry pass
Pass1Step ==
    /\ pc = "pass1"
    /\ i < Len(all_images)
    /\ scrollY' = ScrollTo(TargetScroll(i))
    /\ \E net \in NetAnswers :
        LET img_info == all_images[i + 1]
            r == download_image(img_info, net)
        IN  /\ Download(i, 1, img_info, r)
            /\ CountPass1(r, i, img_info)
    /\ i' = i + 1
    /\ pc' = IF i' < Len(all_images) THEN "pass1"
             ELSE IF failed_images' # <<>> THEN "retry" ELSE "finish"
    /\ UNCHANGED <<url, driver_open, login_wall, doc_height, waited_time, scrollLocals,
                   extracted, all_images, page_height, retry_index, result, summary_writes>>
    /\ UNCHANGED <<uploadVars, fsVars, workflowVars, auxVars>>

\* A faulty variant of CountRetry: a recovered item stays in the failed count
CountRetryNoDecrement(r) ==
    /\ successful_downloads' = IF r.ok THEN successful_downloads + 1 ELSE successful_downloads
    /\ failed_downloads' = failed_downloads

\* if self.download_image(img_info): ... of the retry pass (lines 398-405)
CountRetry(r) ==
    /\ successful_downloads' = IF r.ok THEN successful_downloads + 1 ELSE successful_downloads
    /\ failed_downloads' = IF r.ok THEN failed_downloads - 1 ELSE failed_downloads

\* A faulty variant of RetryStep: the summary file is rewritten after every retry
RetryStepSaving ==
    /\ pc = "retry"
    /\ retry_index < Len(failed_images)
    /\ LET entry == failed_images[retry_index + 1]
       IN  /\ scrollY' = ScrollTo(TargetScroll(entry.index))
           /\ \E net \in NetAnswers :
               LET r == download_image(entry.img_info, net)
                   d == IF r.saved
                        THEN WriteFile(disk, FilePath(entry.img_info), entry.img_info.src)
                        ELSE disk
               IN  /\ disk' = WriteFile(d, SUMMARY_FILE, PartialSummary)
                   /\ outcomes' = Append(outcomes, Outcome(entry.index, 2, r))
                   /\ CountRetry(r)
    /\ retry_index' = retry_index + 1
    /\ summary_writes' = summary_writes + 1
    /\ pc' = IF retry_index' < Len(failed_images) THEN "retry" ELSE "finish"
    /\ UNCHANGED <<url, driver_open, login_wall, doc_height, waited_time, scrollLocals,
                   extracted, all_images, page_height, i, failed_images, result>>
    /\ UNCHANGED <<uploadVars, fsVars, workflowVars, auxVars>>

\* lines 385-409: one iteration of the retry pass
RetryStep ==
    /\ pc = "retry"
    /\ retry_index < Len(failed_images)
    /\ LET entry == failed_images[retry_index + 1]
       IN  /\ scrollY' = ScrollTo(TargetScroll(entry.index))
           /\ \E net \in NetAnswers :
               LET r == download_image(entry.img_info, net)
               IN  /\ Download(entry.index, 2, entry.img_info, r)
                   /\ CountRetry(r)
    /\ retry_index' = retry_index + 1
    /\ pc' = IF retry_index' < Len(failed_images) THEN "retry" ELSE "finish"
    /\ UNCHANGED <<url, driver_open, login_wall, doc_height, waited_time, scrollLocals,
                   extracted, all_images, page_height, i, failed_images, result, summary_writes>>
    /\ UNCHANGED <<uploadVars, fsVars, workflowVars, auxVars>>

\* lines 423-428: the alt of every retry-set entry whose file is not on disk
RECURSIVE FailedGames(_, _)
FailedGames(dir, failed) ==
    IF failed = <<>> THEN <<>>
    ELSE (IF check_if_image_exists(dir, Head(failed).img_info) THEN <<>>
          ELSE <<Head(failed).img_info.alt>>)
         \o FailedGames(dir, Tail(failed))

\* A faulty variant of FinalResult: a run with a failed item reports success False
FinalResultStrict(dir) ==
    Stats("dict", Len(all_images), successful_downloads, failed_downloads,
          FailedGames(dir, failed_images), failed_downloads = 0, FALSE)

\* lines 431-437: the dict returned after the passes
FinalResult(dir) ==
    Stats("dict", Len(all_images), successful_downloads, failed_downloads,
          FailedGames(dir, failed_images), TRUE, FALSE)

\* What opening and writing the summary file can do: succeed, fail to open, or
\* fail after the file was opened for writing
WriteAnswers == {"ok", "open_error", "dump_error"}

\* lines 411-456: the failure report, the result, the summary file and the return
Finish ==
    /\ pc = "finish"
    /\ \E io \in WriteAnswers :
        LET res == FinalResult(disk)
        IN  /\ ReturnClosing(IF io = "ok" THEN res ELSE ErrorResult)
            /\ disk' = IF io = "ok"
                       THEN WriteFile(disk, SUMMARY_FILE,
                                      SummaryContent(res.total_images_found,
                                                     res.successful_downloads,
                                                     res.failed_downloads,
                                                     res.failed_games))
                       ELSE IF io = "dump_error"
                       THEN WriteFile(disk, SUMMARY_FILE, PartialSummary)
                       ELSE disk
            /\ summary_writes' = IF io = "open_error" THEN summary_writes
                                 ELSE summary_writes + 1
    /\ UNCHANGED <<url, pageVars, waited_time, scrollLocals, passLocals>>
    /\ UNCHANGED <<uploadVars, fsVars, workflowVars, auxVars>>

\* The positions whose next step calls the browser session
DriverPcs ==
    {"login_wait", "login_final", "scroll", "scroll_loop", "extract", "pass1", "retry"}

\* except Exception (lines 458-467): a call on the browser session raises
DriverFails ==
    /\ \/ pc \in DriverPcs
       \/ pc = "start" /\ url # <<>>
    /\ ReturnClosing(ErrorResult)
    /\ UNCHANGED <<url, pageVars, waited_time, scrollLocals, passLocals, dirVars>>
    /\ UNCHANGED <<uploadVars, fsVars, workflowVars, auxVars>>

\* Another run of the scraper (earlier, or at the same time) creates a file in
\* the output directory; files are added, never removed. The directory is
\* followed until the method returns.
ExternalWrite ==
    /\ pc # "returned"
    /\ \E name \in ExternalNames \ DOMAIN disk :
        disk' = WriteFile(disk, name, Foreign)
    /\ UNCHANGED <<pc, url, driver_open, pageVars, waited_time, scrollLocals, passLocals,
                   result, summary_writes>>
    /\ UNCHANGED <<uploadVars, fsVars, workflowVars, auxVars>>

Next ==
    \/ ReturnNoUrl
    \/ Navigate
    \/ LoginPoll
    \/ LoginFinal
    \/ ScrollBegin
    \/ ScrollStep
    \/ Extract
    \/ Pass1Step
    \/ RetryStep
    \/ Finish
    \/ DriverFails
    \/ ExternalWrite

Spec == Init /\ [][Next]_vars

(***************************************************************************)
(* TierMakerUploader.upload_images_to_tiermaker, one action per step.      *)
(***************************************************************************)
A_JPG == <<"a",".","j","p","g">>
B_PNG == <<"b",".","p","n","g">>
C_JPEG_UPPER == <<"C",".","J","P","E","G">>
D_GIF == <<"d",".","g","i","f">>
E_WEBP == <<"e",".","w","e","b","p">>
NOTES_TXT == <<"n","o","t","e","s",".","t","x","t">>

\* The names a folder handed to the uploader can hold
UploadNames == {A_JPG, B_PNG, C_JPEG_UPPER, D_GIF, E_WEBP, NOTES_TXT, SUMMARY_FILE}

\* The contents of such a folder
UploadDirs ==
    {[name \in names |-> Foreign] :
        names \in {n \in SUBSET UploadNames : Cardinality(n) <= MaxFiles}}

\* The directory a folder name refers to
Directory(name) ==
    IF name = output_folder THEN Folder(disk_exists, disk) ELSE other_folder

\* return value, out of upload_images_to_tiermaker
UploadReturn(value) ==
    /\ u_result' = value
    /\ u_pc' = "returned"

\* lines 109-115: _setup_driver, which re-raises into the except of lines
\* 327-329, and driver.get
UploadStart ==
    /\ u_pc = "start"
    /\ \E step \in {"setup_error", "get_error", "ok"} :
        /\ u_driver' = IF step = "setup_error" THEN "failed" ELSE "open"
        /\ IF step = "ok"
           THEN u_pc' = "smart_wait" /\ UNCHANGED u_result
           ELSE UploadReturn("False")
    /\ UNCHANGED <<images_folder, pageCtl, acqVars, sendVars>>
    /\ UNCHANGED <<scraperVars, fsVars, workflowVars, auxVars>>

\* lines 117-152: the page loads while the loop polls for the control for at
\* most 10 seconds, and loading is stopped by window.stop() when the loop did
\* not see it; what the page then holds is what the later steps find
SmartWait ==
    /\ u_pc = "smart_wait"
    /\ \E by_id \in BOOLEAN, by_css \in BOOLEAN :
        /\ ctl_present' = by_id
        /\ css_present' = by_css
    /\ u_pc' = "orientation"
    /\ UNCHANGED <<images_folder, u_driver, acqVars, sendVars, u_result>>
    /\ UNCHANGED <<scraperVars, fsVars, workflowVars, auxVars>>

\* lines 155-173: the title and URL are read; the orientation select is set to
\* portrait when that works, and the run goes on either way
SetOrientation ==
    /\ u_pc = "orientation"
    /\ u_pc' = "strategy1"
    /\ UNCHANGED <<images_folder, u_driver, pageCtl, acqVars, sendVars, u_result>>
    /\ UNCHANGED <<scraperVars, fsVars, workflowVars, auxVars>>

\* display, visibility and opacity of a handle are set by script
ForceVisible(handle) == styled' = styled \cup {handle}

\* lines 179-194: the wait for the element with the control's id
Strategy1 ==
    /\ u_pc = "strategy1"
    /\ IF ctl_present
       THEN /\ file_input' = "by_id"
            /\ ForceVisible("by_id")
            /\ located' = Append(located, "id")
            /\ u_pc' = "list_files"
       ELSE /\ u_pc' = "strategy2"
            /\ UNCHANGED <<file_input, styled, located>>
    /\ UNCHANGED <<images_folder, u_driver, pageCtl, buttons, btn_idx, clicked, dumped,
                   sendVars, u_result>>
    /\ UNCHANGED <<scraperVars, fsVars, workflowVars, auxVars>>

\* lines 196-209: the wait for a file input that accepts images
Strategy2 ==
    /\ u_pc = "strategy2"
    /\ IF css_present
       THEN /\ file_input' = "by_css"
            /\ ForceVisible("by_css")
            /\ located' = Append(located, "css")
            /\ u_pc' = "list_files"
       ELSE /\ u_pc' = "find_buttons"
            /\ UNCHANGED <<file_input, styled, located>>
    /\ UNCHANGED <<images_folder, u_driver, pageCtl, buttons, btn_idx, clicked, dumped,
                   sendVars, u_result>>
    /\ UNCHANGED <<scraperVars, fsVars, workflowVars, auxVars>>

\* The lists find_elements can return for the buttons whose text names an
\* upload: for each button, whether it is displayed
ButtonLists == UNION {[1..n -> BOOLEAN] : n \in 0..MaxButtons}

\* line 215: the candidate buttons are looked up; an error of the lookup is
\* caught at line 241
FindButtons ==
    /\ u_pc = "find_buttons"
    /\ \/ \E bs \in ButtonLists :
            /\ buttons' = bs
            /\ u_pc' = IF bs = <<>> THEN "action_div" ELSE "buttons"
       \/ /\ u_pc' = "dump"
          /\ UNCHANGED buttons
    /\ btn_idx' = 0
    /\ UNCHANGED <<images_folder, u_driver, pageCtl, file_input, styled, located, clicked,
                   dumped, sendVars, u_result>>
    /\ UNCHANGED <<scraperVars, fsVars, workflowVars, auxVars>>

\* The loop over the buttons goes on with the next button, or ends; the list
\* is not read after the loop
NextButton(found) ==
    IF ~found /\ btn_idx + 1 < Len(buttons)
    THEN /\ btn_idx' = btn_idx + 1
         /\ u_pc' = "buttons"
         /\ UNCHANGED buttons
    ELSE /\ btn_idx' = 0
         /\ buttons' = <<>>
         /\ u_pc' = "action_div"

\* lines 216-227: one iteration of the loop over the buttons. A displayed
\* button is clicked and the control is looked up by id: found ends the loop,
\* not found goes on with the next button. An error of is_displayed or click
\* is caught at line 241.
ButtonStep ==
    /\ u_pc = "buttons"
    /\ btn_idx < Len(buttons)
    /\ \/ /\ ~buttons[btn_idx + 1]
          /\ NextButton(FALSE)
          /\ UNCHANGED <<ctl_present, file_input, located, clicked>>
       \/ /\ buttons[btn_idx + 1]
          /\ clicked' = Append(clicked, "button")
          /\ \E appears \in BOOLEAN :
              /\ ctl_present' = appears
              /\ NextButton(appears)
              /\ IF appears
                 THEN /\ file_input' = "by_id"
                      /\ located' = Append(located, "button")
                 ELSE UNCHANGED <<file_input, located>>
       \/ /\ u_pc' = "dump"
          /\ btn_idx' = 0
          /\ buttons' = <<>>
          /\ UNCHANGED <<ctl_present, file_input, located, clicked>>
    /\ UNCHANGED <<images_folder, u_driver, css_present, styled, dumped, sendVars, u_result>>
    /\ UNCHANGED <<scraperVars, fsVars, workflowVars, auxVars>>

\* lines 230-239: after the loop, whatever its outcome, div.action is looked
\* up, clicked when displayed, and the control is looked up by id; every error
\* is passed over
ActionDiv ==
    /\ u_pc = "action_div"
    /\ \/ UNCHANGED <<ctl_present, file_input, located, clicked>>
       \/ /\ clicked' = Append(clicked, "action")
          /\ \E appears \in BOOLEAN :
              /\ ctl_present' = appears
              /\ IF appears
                 THEN /\ file_input' = "by_id"
                      /\ located' = Append(located, "action")
                 ELSE UNCHANGED <<file_input, located>>
    /\ u_pc' = "dump"
    /\ UNCHANGED <<images_folder, u_driver, css_present, styled,
                   buttons, btn_idx, dumped, sendVars, u_result>>
    /\ UNCHANGED <<scraperVars, fsVars, workflowVars, auxVars>>

\* lines 244-258: the attributes of every input of the page are logged
Dump ==
    /\ u_pc = "dump"
    /\ dumped' = TRUE
    /\ u_pc' = "final_check"
    /\ UNCHANGED <<images_folder, u_driver, pageCtl, file_input, styled, located, buttons,
                   btn_idx, clicked, sendVars, u_result>>
    /\ UNCHANGED <<scraperVars, fsVars, workflowVars, auxVars>>

\* lines 260-266: the control is looked up by id once more
FinalCheck ==
    /\ u_pc = "final_check"
    /\ IF ctl_present
       THEN /\ file_input' = "by_id"
            /\ located' = Append(located, "final")
            /\ u_pc' = "list_files"
            /\ UNCHANGED u_result
       ELSE /\ UploadReturn("False")
            /\ UNCHANGED <<file_input, located>>
    /\ UNCHANGED <<images_folder, u_driver, pageCtl, styled, buttons, btn_idx, clicked,
                   dumped, sendVars>>
    /\ UNCHANGED <<scraperVars, fsVars, workflowVars, auxVars>>

\* lines 268-278: get_image_files over the folder as it is now; nothing to
\* upload returns False
ListFiles ==
    /\ u_pc = "list_files"
    /\ LET d == Directory(images_folder)
       IN  /\ IF d.exists
              THEN \E l \in Listings(DOMAIN d.files) : listing' = l
              ELSE listing' = <<>>
           /\ image_files' = get_image_files(images_folder, d.exists, listing')
    /\ IF image_files' = <<>>
       THEN UploadReturn("False")
       ELSE u_pc' = "submit" /\ UNCHANGED u_result
    /\ UNCHANGED <<images_folder, u_driver, pageCtl, acqVars, submitted, batch_raised,
                   fallback_raised, fb_idx>>
    /\ UNCHANGED <<scraperVars, fsVars, workflowVars, auxVars>>

\* One send_keys call the control accepted
Submission(kind, keys) == [kind |-> kind, keys |-> keys, target |-> file_input]

\* What the batch attempt can do: both clicks on the control raise, send_keys
\* raises, or the keys are taken
BatchAnswers == {"ok", "click_error", "send_error"}

\* A faulty variant of SubmitBatch: the one-by-one loop follows a batch that
\* was taken
SubmitBatchThenEach ==
    /\ u_pc = "submit"
    /\ \E ans \in BatchAnswers :
        /\ batch_raised' = (ans # "ok")
        /\ submitted' = IF ans = "ok"
                        THEN Append(submitted,
                                    Submission("batch", JoinLines(AbsolutePaths(image_files))))
                        ELSE submitted
    /\ u_pc' = "fallback"
    /\ fb_idx' = 0
    /\ UNCHANGED <<images_folder, u_driver, pageCtl, acqVars, listing, image_files,
                   fallback_raised, u_result>>
    /\ UNCHANGED <<scraperVars, fsVars, workflowVars, auxVars>>

\* lines 280-308: the control is clicked (by script when the click raises) and
\* all paths are sent in one send_keys, one per line; True when that worked,
\* the one-by-one loop when anything raised
SubmitBatch ==
    /\ u_pc = "submit"
    /\ \E ans \in BatchAnswers :
        /\ batch_raised' = (ans # "ok")
        /\ IF ans = "ok"
           THEN /\ submitted' = Append(submitted,
                                       Submission("batch",
                                                  JoinLines(AbsolutePaths(image_files))))
                /\ UploadReturn("True")
           ELSE /\ u_pc' = "fallback"
                /\ UNCHANGED <<submitted, u_result>>
    /\ fb_idx' = 0
    /\ UNCHANGED <<images_folder, u_driver, pageCtl, acqVars, listing, image_files,
                   fallback_raised>>
    /\ UNCHANGED <<scraperVars, fsVars, workflowVars, auxVars>>

\* lines 310-325: one send_keys of the one-by-one loop; True after the last
\* path, False as soon as a send_keys raises
FallbackStep ==
    /\ u_pc = "fallback"
    /\ fb_idx < Len(image_files)
    /\ \E ok \in BOOLEAN :
        IF ok
        THEN /\ submitted' = Append(submitted,
                                    Submission("single", AbsolutePaths(image_files)[fb_idx + 1]))
             /\ fb_idx' = fb_idx + 1
             /\ IF fb_idx' < Len(image_files)
                THEN UNCHANGED <<u_pc, u_result>>
                ELSE UploadReturn("True")
             /\ UNCHANGED fallback_raised
        ELSE /\ fallback_raised' = TRUE
             /\ UploadReturn("False")
             /\ UNCHANGED <<submitted, fb_idx>>
    /\ UNCHANGED <<images_folder, u_driver, pageCtl, acqVars, listing, image_files,
                   batch_raised>>
    /\ UNCHANGED <<scraperVars, fsVars, workflowVars, auxVars>>

\* The positions whose next step can raise out of every inner handler: the
\* reads of the title and URL, the waits and the style scripts, os.listdir
UploadRaisePcs == {"orientation", "strategy1", "strategy2", "list_files"}

\* except Exception (lines 327-329): the error becomes the return value False
UploadRaises ==
    /\ u_pc \in UploadRaisePcs
    /\ UploadReturn("False")
    /\ UNCHANGED <<images_folder, u_driver, pageCtl, acqVars, sendVars>>
    /\ UNCHANGED <<scraperVars, fsVars, workflowVars, auxVars>>

\* An uploader constructed over a folder, about to run
\* upload_images_to_tiermaker; no scraper exists
UploadInit ==
    /\ pc = "idle"
    /\ driver_open = FALSE
    /\ ScraperFresh
    /\ url = <<>>
    /\ output_folder = STEAM_IMAGES
    /\ images_folder = STEAM_IMAGES
    /\ disk_exists \in BOOLEAN
    /\ disk \in IF disk_exists THEN UploadDirs ELSE {EmptyDir}
    /\ other_folder = MissingFolder
    /\ u_pc = "start"
    /\ UploadFresh
    /\ WorkflowIdle
    /\ ExtractIdle
    /\ GuiIdle
    /\ LogIdle

UploadNext ==
    \/ UploadStart
    \/ SmartWait
    \/ SetOrientation
    \/ Strategy1
    \/ Strategy2
    \/ FindButtons
    \/ ButtonStep
    \/ ActionDiv
    \/ Dump
    \/ FinalCheck
    \/ ListFiles
    \/ SubmitBatch
    \/ FallbackStep
    \/ UploadRaises

SpecUpload == UploadInit /\ [][UploadNext]_vars

(***************************************************************************)
(* The workflow entry points: crawl_and_upload of main.py and run_workflow *)
(* of the GUI. Each constructs a scraper, calls scrape_images, constructs  *)
(* an uploader and calls upload_images_to_tiermaker.                       *)
(***************************************************************************)
EntryPoints == {"cli", "gui"}

\* The output_folder values a configuration can hold
ConfiguredFolders == {STEAM_IMAGES, MY_IMAGES}

\* What earlier runs can have left in a folder
EarlierDirs == {EmptyDir, [name \in {A_JPG} |-> Foreign]}

\* The calls of scrape_images, each by the value it returns and the files it
\* writes: no URL (lines 265-273), login timeout (line 315), nothing extracted
\* (lines 326-334), an error caught at lines 458-467 before or after a
\* download, and the dict of lines 431-456 after one success or one failure
ScrapeRun(value, written, closes) == [value |-> value, written |-> written, closes |-> closes]
ScrapeRuns(u) ==
    IF u = <<>>
    THEN {ScrapeRun(ZeroResult, {}, FALSE)}
    ELSE {ScrapeRun(NoneResult, {}, TRUE),
          ScrapeRun(ZeroResult, {}, TRUE),
          ScrapeRun(ErrorResult, {}, TRUE),
          ScrapeRun(ErrorResult, {HalfLife \o JPG}, TRUE),
          ScrapeRun(Stats("dict", 1, 1, 0, <<>>, TRUE, FALSE),
                    {HalfLife \o JPG, SUMMARY_FILE}, TRUE),
          ScrapeRun(Stats("dict", 1, 0, 1, <<Portal>>, TRUE, FALSE), {SUMMARY_FILE}, TRUE)}

\* The directory after a call wrote the given names
RECURSIVE WriteAll(_, _)
WriteAll(dir, names) ==
    IF names = {} THEN dir
    ELSE LET name == CHOOSE n \in names : TRUE
         IN  WriteAll(WriteFile(dir, name, Foreign), names \ {name})

\* return, out of the workflow
WorkflowReturn(value) ==
    /\ w_result' = value
    /\ w_pc' = "done"
    /\ is_running' = FALSE

\* main.py lines 43-48, GUI lines 461-476: SteamImageScraper(config_file),
\* whose _setup_driver re-raises (to the caller of crawl_and_upload; into the
\* except of run_workflow), the overrides, and the GUI's first look at
\* is_running
WfConstruct ==
    /\ w_pc = "construct"
    /\ \E driver_ok \in BOOLEAN :
        IF ~driver_ok
        THEN /\ WorkflowReturn(IF entry_point = "cli" THEN "raised" ELSE "error")
             /\ UNCHANGED <<pc, driver_open, disk_exists>>
        ELSE /\ pc' = "start"
             /\ driver_open' = TRUE
             /\ disk_exists' = TRUE
             /\ IF entry_point = "gui" /\ ~is_running
                THEN WorkflowReturn("stopped")
                ELSE w_pc' = "scrape" /\ UNCHANGED <<is_running, w_result>>
    /\ UNCHANGED <<url, login_wall, doc_height, scrollY, waited_time, scrollLocals, passLocals,
                   result, dirVars, output_folder, other_folder, uploadVars, entry_point,
                   reported>>
    /\ UNCHANGED auxVars

\* main.py line 51, GUI line 481: the call of scrape_images
WfScrape ==
    /\ w_pc = "scrape"
    /\ \E run \in ScrapeRuns(url) :
        /\ result' = run.value
        /\ disk' = WriteAll(disk, run.written)
        /\ driver_open' = ~run.closes
        /\ summary_writes' = IF SUMMARY_FILE \in run.written THEN 1 ELSE 0
    /\ pc' = "returned"
    /\ w_pc' = "report"
    /\ UNCHANGED <<url, login_wall, doc_height, scrollY, waited_time, scrollLocals, passLocals,
                   fsVars, uploadVars, entry_point, is_running, reported, w_result>>
    /\ UNCHANGED auxVars

\* main.py lines 52-58: the completion is logged and the scraper closed.
\* GUI lines 483-508: a stopped run closes the scraper and returns; otherwise
\* the counts and failed games of a truthy result are displayed and the scraper
\* is closed.
WfReport ==
    /\ w_pc = "report"
    /\ driver_open' = FALSE
    /\ IF entry_point = "gui" /\ ~is_running
       THEN /\ WorkflowReturn("stopped")
            /\ UNCHANGED reported
       ELSE /\ reported' = (entry_point = "gui" /\ result.kind = "dict")
            /\ w_pc' = "make_uploader"
            /\ UNCHANGED <<is_running, w_result>>
    /\ UNCHANGED <<pc, url, login_wall, doc_height, scrollY, waited_time, scrollLocals,
                   passLocals, result, dirVars, fsVars, uploadVars, entry_point>>
    /\ UNCHANGED auxVars

\* main.py line 62: TierMakerUploader(). GUI lines 514-517:
\* TierMakerUploader(scraper.output_folder) and the look at is_running.
WfMakeUploader ==
    /\ w_pc = "make_uploader"
    /\ images_folder' = IF entry_point = "cli" THEN STEAM_IMAGES ELSE output_folder
    /\ IF entry_point = "gui" /\ ~is_running
       THEN /\ WorkflowReturn("stopped")
            /\ UNCHANGED u_pc
       ELSE /\ u_pc' = "start"
            /\ w_pc' = "upload"
            /\ UNCHANGED <<is_running, w_result>>
    /\ UNCHANGED <<scraperVars, fsVars, u_driver, pageCtl, acqVars, sendVars, u_result,
                   entry_point, reported>>
    /\ UNCHANGED auxVars

\* main.py lines 65-76, GUI lines 519-536: the boolean of the upload decides
\* what the workflow reports
WfFinish ==
    /\ w_pc = "upload"
    /\ u_pc = "returned"
    /\ WorkflowReturn(IF entry_point = "cli" THEN u_result
                      ELSE IF u_result = "True" THEN "completed" ELSE "upload_failed")
    /\ UNCHANGED <<scraperVars, fsVars, uploadVars, entry_point, reported>>
    /\ UNCHANGED auxVars

\* GUI lines 441-445, stop_process: the Stop button clears is_running
WfStop ==
    /\ entry_point = "gui"
    /\ is_running
    /\ w_pc # "done"
    /\ is_running' = FALSE
    /\ UNCHANGED <<scraperVars, fsVars, uploadVars, entry_point, w_pc, reported, w_result>>
    /\ UNCHANGED auxVars

\* An entry point was called: nothing is constructed yet, the folders hold what
\* earlier runs left
WorkflowInit ==
    /\ entry_point \in EntryPoints
    /\ w_pc = "construct"
    /\ is_running = (entry_point = "gui")
    /\ reported = FALSE
    /\ w_result = "pending"
    /\ pc = "idle"
    /\ driver_open = FALSE
    /\ ScraperFresh
    /\ url \in IF entry_point = "gui" THEN {LIBRARY_URL} ELSE {<<>>, LIBRARY_URL}
    /\ output_folder \in ConfiguredFolders
    /\ disk_exists \in BOOLEAN
    /\ disk \in IF disk_exists THEN EarlierDirs ELSE {EmptyDir}
    /\ other_folder \in IF output_folder = STEAM_IMAGES THEN {MissingFolder}
                       ELSE {MissingFolder} \cup {Folder(TRUE, d) : d \in EarlierDirs}
    /\ images_folder = STEAM_IMAGES
    /\ u_pc = "idle"
    /\ UploadFresh
    /\ ExtractIdle
    /\ GuiIdle
    /\ LogIdle

WorkflowNext ==
    \/ WfConstruct
    \/ WfScrape
    \/ WfReport
    \/ WfMakeUploader
    \/ UploadStart
    \/ SmartWait
    \/ SetOrientation
    \/ Strategy1
    \/ Strategy2
    \/ FindButtons
    \/ ButtonStep
    \/ ActionDiv
    \/ Dump
    \/ FinalCheck
    \/ ListFiles
    \/ SubmitBatch
    \/ FallbackStep
    \/ UploadRaises
    \/ WfFinish
    \/ WfStop

SpecWorkflow == WorkflowInit /\ [][WorkflowNext]_vars

(***************************************************************************)
(* Properties of the download passes.                                      *)
(***************************************************************************)
IsPass1(o) == o.pass = 1
IsPass2(o) == o.pass = 2
Pass1Outcomes == SelectSeq(outcomes, IsPass1)
Pass2Outcomes == SelectSeq(outcomes, IsPass2)

\* Pass 1 has processed every reference of a non-empty list
Pass1Complete == extracted /\ Len(all_images) >= 1 /\ i = Len(all_images)
\* ... and the retry pass has processed every entry of the retry set
RetryComplete == Pass1Complete /\ retry_index = Len(failed_images)

\* The method returned the dict built after the passes
ReturnedStats == pc = "returned" /\ result.kind = "dict" /\ result.success

\* Some call of download_image for the reference at (zero-based) index succeeded
OkIndex(index) ==
    \E k \in 1..Len(outcomes) : outcomes[k].index = index /\ outcomes[k].ok

\* The reference at index was attempted in the given pass
Attempted(index, pass) ==
    \E k \in 1..Len(outcomes) : outcomes[k].index = index /\ outcomes[k].pass = pass

InSeq(x, seq) == \E k \in 1..Len(seq) : seq[k] = x

\* C1: for a list of N >= 1 references, pass 1 leaves exactly N outcome records
\* and successful_downloads + failed_downloads = N with both counters >= 0; the
\* equality holds after every step of the retry pass, and the returned dict has
\* total_images_found = N = successful_downloads + failed_downloads.
C1_CountsPartitionTheList ==
    /\ successful_downloads >= 0
    /\ failed_downloads >= 0
    /\ Pass1Complete =>
        /\ Len(Pass1Outcomes) = Len(all_images)
        /\ successful_downloads + failed_downloads = Len(all_images)
    /\ ReturnedStats =>
        /\ result.total_images_found = Len(all_images)
        /\ result.successful_downloads >= 0
        /\ result.failed_downloads >= 0
        /\ result.successful_downloads + result.failed_downloads = Len(all_images)

\* A run of two references that both failed in pass 1, one of them recovered
C1_Witness ==
    /\ ReturnedStats
    /\ Len(all_images) = 2
    /\ Len(failed_images) = 2
    /\ \E k \in 1..Len(outcomes) : outcomes[k].pass = 2 /\ outcomes[k].ok
    /\ result.failed_downloads = 1

\* C2: a failed download_image never aborts the run: pass 1 attempts the
\* references in order without a gap, a run that made a download attempt and
\* returns without an escaped exception has attempted every reference and every
\* retry-set entry and reports success = True; a dict with success = False has
\* all counts zero and is returned only when no list was extracted, the list is
\* empty, or an exception escaped the flow.
C2_ItemFailureNeverAborts ==
    /\ \A k \in 1..Len(Pass1Outcomes) : Pass1Outcomes[k].index = k - 1
    /\ pc = "pass1" => Len(Pass1Outcomes) = i
    /\ (pc = "returned" /\ result.kind = "dict" /\ ~result.error /\ outcomes # <<>>) =>
        /\ result.success
        /\ Len(Pass1Outcomes) = Len(all_images)
        /\ Len(Pass2Outcomes) = Len(failed_images)
    /\ (pc = "returned" /\ result.kind = "dict" /\ ~result.success) =>
        /\ result.error \/ all_images = <<>>
        /\ result.total_images_found = 0
        /\ result.successful_downloads = 0
        /\ result.failed_downloads = 0
        /\ result.failed_games = <<>>

\* The first reference failed in both passes, the second one was then attempted
\* and succeeded, and the run reports success
C2_Witness ==
    /\ ReturnedStats
    /\ Len(all_images) = 2
    /\ ~OkIndex(0)
    /\ Attempted(0, 2)
    /\ OkIndex(1)

\* The (zero-based) indices of the references whose URL has the placeholder marker
PlaceholderIndices ==
    {index \in 0..(Len(all_images) - 1) : IsPlaceholder(all_images[index + 1].src)}

\* C3: every call of download_image for a reference whose URL contains
\* defaultappheader.png returns failure without a fetch and without a file
\* written, whatever the network answers; in a completed run the reference
\* failed in pass 1 and in the retry pass and is counted in failed_downloads.
C3_PlaceholderAlwaysFails ==
    /\ \A k \in 1..Len(outcomes) :
        outcomes[k].index \in PlaceholderIndices =>
            ~outcomes[k].ok /\ ~outcomes[k].fetched /\ ~outcomes[k].saved
    /\ ReturnedStats =>
        /\ \A index \in PlaceholderIndices : Attempted(index, 1) /\ Attempted(index, 2)
        /\ result.failed_downloads >= Cardinality(PlaceholderIndices)

\* A completed run with a placeholder reference next to a reference that was
\* fetched and saved
C3_Witness ==
    /\ ReturnedStats
    /\ PlaceholderIndices # {}
    /\ \E k \in 1..Len(outcomes) : outcomes[k].fetched /\ outcomes[k].saved
    /\ (Portal \o JPG) \notin DOMAIN disk

\* The retry-set entries whose file is not in the directory
NotOnDisk ==
    {k \in 1..Len(failed_images) : FilePath(failed_images[k].img_info) \notin DOMAIN disk}

\* C4: in the returned dict, failed_games lists only retry-set entries whose
\* derived path is not in the directory: an entry that failed in both passes
\* but whose file exists (left by a prior or concurrent run) is not listed.
C4_FilesOnDiskNotReported ==
    ReturnedStats =>
        /\ Len(result.failed_games) = Cardinality(NotOnDisk)
        /\ \A j \in 1..Len(result.failed_games) :
            \E k \in NotOnDisk : result.failed_games[j] = failed_images[k].img_info.alt

\* An entry failed in both passes, its file was left by another run, and
\* nothing is reported as failed
C4_Witness ==
    /\ ReturnedStats
    /\ \E k \in 1..Len(failed_images) :
        /\ ~OkIndex(failed_images[k].index)
        /\ Attempted(failed_images[k].index, 2)
        /\ FilePath(failed_images[k].img_info) \in DOMAIN disk
        /\ disk[FilePath(failed_images[k].img_info)] = Foreign
    /\ result.failed_downloads >= 1
    /\ result.failed_games = <<>>

\* C5: the failed count of the returned dict is filtered like failed_games, so
\* failed_downloads equals the number of entries of failed_games.
C5_FailedCountMatchesFailedGames ==
    ReturnedStats => result.failed_downloads = Len(result.failed_games)

\* The extracted list of scenario A
ScenarioA ==
    <<ImgInfo(URL_A, HalfLife, <<>>, PICTURE_SOURCE),
      ImgInfo(URL_DEFAULT, Portal, <<>>, PICTURE_SOURCE)>>

\* A completed run of scenario A: the fetch of a.png succeeded and no other run
\* left a file in the directory
ScenarioARun ==
    /\ ReturnedStats
    /\ all_images = ScenarioA
    /\ outcomes[1].ok
    /\ \A f \in DOMAIN disk : disk[f] # Foreign

ScenarioAStats == Stats("dict", 2, 1, 1, <<Portal>>, TRUE, FALSE)

\* C6 as stated: scenario A yields the counts 2/1/1 and failed_games = [Portal],
\* and afterwards the directory contains exactly the one file Half-Life.jpg.
C6_ScenarioA_OnlyImageFile ==
    ScenarioARun => result = ScenarioAStats /\ DOMAIN disk = {HalfLife \o JPG}

\* C6, amended: scenario A yields the counts 2/1/1 and failed_games = [Portal],
\* and afterwards the directory contains exactly Half-Life.jpg and the summary
\* file download_summary.json.
C6_ScenarioA ==
    ScenarioARun =>
        /\ result = ScenarioAStats
        /\ DOMAIN disk = {HalfLife \o JPG, SUMMARY_FILE}

C6_Witness == ScenarioARun /\ disk[HalfLife \o JPG] = URL_A

\* C7: when extraction returns an empty list the method has returned the
\* all-zero dict with success = False, no download was attempted and the
\* summary file was not written by the run.
C7_EmptyExtraction ==
    (extracted /\ all_images = <<>>) =>
        /\ pc = "returned"
        /\ result = ZeroResult
        /\ outcomes = <<>>
        /\ summary_writes = 0
        /\ SUMMARY_FILE \in DOMAIN disk => disk[SUMMARY_FILE] = Foreign

C7_Witness ==
    /\ extracted
    /\ all_images = <<>>
    /\ pc = "returned"
    /\ SUMMARY_FILE \notin DOMAIN disk

\* C8: a reference whose URL is absent, empty or not HTTP(S) never reaches the
\* download loop: it is not in the list that total_images_found counts, not in
\* the retry set and not in failed_games.
C8_InvalidUrlDiscarded ==
    /\ \A k \in 1..Len(all_images) : ~InvalidUrl(all_images[k].src)
    /\ \A k \in 1..Len(failed_images) : ~InvalidUrl(failed_images[k].img_info.src)

\* The last call of download_image that saved a file under the given name
LastSaver(name) ==
    CHOOSE k \in 1..Len(outcomes) :
        /\ outcomes[k].saved
        /\ FilePath(all_images[outcomes[k].index + 1]) = name
        /\ \A m \in (k + 1)..Len(outcomes) :
            ~(outcomes[m].saved /\ FilePath(all_images[outcomes[m].index + 1]) = name)

\* Two distinct references with the same output path, both downloaded
Collision(a, b) ==
    /\ a < b
    /\ all_images[a] # all_images[b]
    /\ FilePath(all_images[a]) = FilePath(all_images[b])
    /\ OkIndex(a - 1)
    /\ OkIndex(b - 1)

\* C9: when two distinct references derive the same file name and both
\* downloads succeed, the run completes, every reference with a successful
\* download is counted once in successful_downloads, neither label is in
\* failed_games, and the one file of that name holds the image saved last.
C9_CollisionOverwrites ==
    ReturnedStats =>
        \A a, b \in 1..Len(all_images) :
            Collision(a, b) =>
                /\ result.successful_downloads =
                       Cardinality({x \in 0..(Len(all_images) - 1) : OkIndex(x)})
                /\ ~InSeq(all_images[a].alt, result.failed_games)
                /\ ~InSeq(all_images[b].alt, result.failed_games)
                /\ disk[FilePath(all_images[a])] =
                       all_images[outcomes[LastSaver(FilePath(all_images[a]))].index + 1].src

\* Two colliding references both succeeded: two successful downloads, one
\* image file in the directory
C9_Witness ==
    /\ ReturnedStats
    /\ Len(all_images) = 2
    /\ Collision(1, 2)
    /\ result.successful_downloads = 2
    /\ DOMAIN disk = {HalfLife \o JPG, SUMMARY_FILE}
    /\ disk[HalfLife \o JPG] = URL_B

\* C10: the run opens download_summary.json for writing at most once, and only
\* in the step that returns after pass 1 and the retry pass have both finished;
\* a run that ends earlier has not written it.
C10_SummaryWrittenOnceAtEnd ==
    /\ summary_writes <= 1
    /\ summary_writes = 1 => pc = "returned" /\ RetryComplete
    /\ (SUMMARY_FILE \in DOMAIN disk /\ disk[SUMMARY_FILE] # Foreign) =>
        summary_writes = 1
    /\ (pc = "returned" /\ ~RetryComplete) => summary_writes = 0

\* The summary was written by a run that had a retry pass
C10_Witness ==
    /\ ReturnedStats
    /\ summary_writes = 1
    /\ Len(Pass2Outcomes) >= 1
    /\ SUMMARY_FILE \in DOMAIN disk

(***************************************************************************)
(* The value returned by scrape_images, and the two passes.                *)
(***************************************************************************)
\* C11: on every terminating path of scrape_images, the login timeout
\* included, the value returned to the caller is a statistics dict.
C11_AlwaysReturnsRecord == pc = "returned" => result.kind = "dict"

IsFailure(o) == ~o.ok
\* The calls of pass 1 that failed, in call order
Pass1Failures == SelectSeq(Pass1Outcomes, IsFailure)

\* The number of calls of download_image for the reference at index
AttemptCount(index) ==
    Cardinality({k \in 1..Len(outcomes) : outcomes[k].index = index})

\* C20: pass 1 attempts the references once each in list order; the retry set
\* is exactly the items pass 1 failed, in that order and with their index in
\* the list; the retry pass starts only when pass 1 has processed every
\* reference, attempts the retry set in order once each and nothing else, and
\* there is no third pass: every reference of a finished run was attempted at
\* least once and at most twice.
C20_TwoPassRetry ==
    /\ \A k \in 1..Len(outcomes) : outcomes[k].pass \in {1, 2}
    /\ outcomes = Pass1Outcomes \o Pass2Outcomes
    /\ Len(Pass1Outcomes) <= Len(all_images)
    /\ \A k \in 1..Len(Pass1Outcomes) : Pass1Outcomes[k].index = k - 1
    /\ Len(failed_images) = Len(Pass1Failures)
    /\ \A k \in 1..Len(failed_images) :
        /\ failed_images[k].index = Pass1Failures[k].index
        /\ failed_images[k].img_info = all_images[failed_images[k].index + 1]
    /\ Pass2Outcomes # <<>> => Pass1Complete /\ Len(Pass1Outcomes) = Len(all_images)
    /\ Len(Pass2Outcomes) <= Len(failed_images)
    /\ \A k \in 1..Len(Pass2Outcomes) : Pass2Outcomes[k].index = failed_images[k].index
    /\ \A k \in 1..Len(Pass2Outcomes) :
        ~\E j \in 1..Len(Pass1Outcomes) :
            Pass1Outcomes[j].index = Pass2Outcomes[k].index /\ Pass1Outcomes[j].ok
    /\ \A index \in 0..(Len(all_images) - 1) : AttemptCount(index) <= 2
    /\ ReturnedStats =>
        /\ Len(Pass2Outcomes) = Len(failed_images)
        /\ \A index \in 0..(Len(all_images) - 1) : AttemptCount(index) \in {1, 2}

\* A finished run of two references: the first one failed pass 1 and was
\* retried, the second one succeeded in pass 1 and was left alone
C20_Witness ==
    /\ ReturnedStats
    /\ Len(all_images) = 2
    /\ Len(Pass1Outcomes) = 2
    /\ ~Pass1Outcomes[1].ok
    /\ Pass1Outcomes[2].ok
    /\ Len(Pass2Outcomes) = 1
    /\ Pass2Outcomes[1].index = 0

(***************************************************************************)
(* Properties of the upload.                                               *)
(***************************************************************************)
UploadReturned == u_pc = "returned"

\* A click of the heuristic step made the control findable
ClickLocated == InSeq("button", located) \/ InSeq("action", located)

\* C12: when a heuristic click (a button or the action container) has made the
\* control findable, the uploader holds the handle and the listing of the
\* page's inputs is not run.
C12_HeuristicClickSkipsDump ==
    ClickLocated => (file_input = "by_id" /\ ~dumped)

\* C13: every handle that has taken a file path had its display, visibility
\* and opacity forced before.
C13_VisibleBeforeSubmission ==
    \A k \in 1..Len(submitted) : submitted[k].target \in styled

\* The names of UploadNames with a recognised extension, by hand
RecognisedNames == {A_JPG, B_PNG, C_JPEG_UPPER, D_GIF, E_WEBP}

\* The names of the folder the uploader lists, empty for a missing folder
FolderNames ==
    IF Directory(images_folder).exists THEN DOMAIN Directory(images_folder).files ELSE {}

\* The absolute path of a name of the uploader's folder
AbsolutePathOf(name) == CWD \o <<"/">> \o images_folder \o <<"/">> \o name

\* The position of a name in the listing
ListingIndex(name) == CHOOSE k \in 1..Len(listing) : listing[k] = name

\* The listing has been taken and was not empty of images
Listed == image_files # <<>>

IsBatch(e) == e.kind = "batch"
IsSingle(e) == e.kind = "single"
Batches == SelectSeq(submitted, IsBatch)
Singles == SelectSeq(submitted, IsSingle)

\* C14: the listing is an order of the folder's names; the files found are the
\* names with a recognised extension (compared in lower case), each once, in
\* listing order; the batch sent to the control is their absolute paths in that
\* order, and no path of another name (the summary file included) is ever sent.
C14_BatchIsRecognisedFiles ==
    /\ Listed =>
        /\ listing \in Listings(FolderNames)
        /\ Len(image_files) = Cardinality(FolderNames \cap RecognisedNames)
        /\ \A name \in FolderNames \cap RecognisedNames :
            \E k \in 1..Len(image_files) :
                image_files[k] = images_folder \o <<"/">> \o name
        /\ \A j, k \in 1..Len(image_files) :
            j < k =>
                \E a, b \in FolderNames \cap RecognisedNames :
                    /\ image_files[j] = images_folder \o <<"/">> \o a
                    /\ image_files[k] = images_folder \o <<"/">> \o b
                    /\ ListingIndex(a) < ListingIndex(b)
    /\ \A e \in 1..Len(Batches) :
        LET paths == SplitLines(Batches[e].keys, <<>>)
        IN  /\ Len(paths) = Len(image_files)
            /\ \A k \in 1..Len(paths) :
                \E name \in FolderNames \cap RecognisedNames :
                    /\ image_files[k] = images_folder \o <<"/">> \o name
                    /\ paths[k] = AbsolutePathOf(name)
    /\ \A e \in 1..Len(submitted) :
        \A name \in UploadNames \ RecognisedNames :
            ~InSeq(AbsolutePathOf(name), SplitLines(submitted[e].keys, <<>>))

\* Scenario C: the folder holds a.jpg, b.png and notes.txt and the batch of
\* the two images was taken
C14_Witness ==
    /\ FolderNames = {A_JPG, B_PNG, NOTES_TXT}
    /\ UploadReturned
    /\ u_result = "True"
    /\ Len(submitted) = 1
    /\ listing = <<B_PNG, NOTES_TXT, A_JPG>>
    /\ SplitLines(submitted[1].keys, <<>>) = <<AbsolutePathOf(B_PNG), AbsolutePathOf(A_JPG)>>

\* C15: when the folder is missing or holds no recognised file, the upload has
\* created no browser session, visited no page and run no acquisition step,
\* and what it returns is False.
C15_FailsFastWithoutFiles ==
    (FolderNames \cap RecognisedNames = {} /\ u_pc # "idle") =>
        /\ u_driver = "none"
        /\ u_pc \in {"start", "returned"}
        /\ located = <<>> /\ clicked = <<>> /\ ~dumped
        /\ UploadReturned => u_result = "False"

\* C16: the one-by-one loop runs only after the batch attempt raised; it sends
\* the absolute paths one per call, in batch order, to the control of the
\* batch; a send_keys of the loop that raises ends the upload with False; a
\* batch that was taken is the only submission and holds every path once.
C16_FallbackOnlyAfterBatchFailure ==
    /\ (Singles # <<>> \/ u_pc = "fallback" \/ fallback_raised) => batch_raised
    /\ batch_raised => Batches = <<>>
    /\ \A k \in 1..Len(Singles) :
        /\ Singles[k].keys = AbsolutePaths(image_files)[k]
        /\ Singles[k].target = file_input
    /\ Len(Singles) <= Len(image_files)
    /\ (UploadReturned /\ u_result = "True" /\ batch_raised) =>
        Len(Singles) = Len(image_files)
    /\ fallback_raised => UploadReturned /\ u_result = "False"
    /\ Batches # <<>> =>
        /\ submitted = Batches
        /\ Len(Batches) = 1
        /\ Batches[1].target = file_input
        /\ UploadReturned /\ u_result = "True"
        /\ LET paths == SplitLines(Batches[1].keys, <<>>)
           IN  \A j, k \in 1..Len(paths) : j # k => paths[j] # paths[k]

\* The batch raised and the loop then sent two paths, one per call
C16_Witness ==
    /\ UploadReturned
    /\ u_result = "True"
    /\ batch_raised
    /\ Len(Singles) = 2
    /\ Len(image_files) = 2

\* C17: a browser session that cannot be created ends the upload by an
\* exception that reaches the caller; every other error ends it with a boolean.
C17_SetupFailurePropagates ==
    UploadReturned =>
        IF u_driver = "failed" THEN u_result = "raised" ELSE u_result \in {"True", "False"}

(***************************************************************************)
(* Properties of the workflow entry points.                                *)
(***************************************************************************)
\* C18: in both entry points, once the uploader exists and its upload has been
\* called, the folder it lists is the folder the scraper wrote to, whatever
\* output_folder was configured.
C18_UploadListsDownloadFolder ==
    u_pc # "idle" => images_folder = output_folder

\* scrape_images returned a dict that reports success
CrawlSucceeded == result.kind = "dict" /\ result.success /\ ~result.error

\* C19: crawl_and_upload, once scrape_images has returned, gives True only when
\* the crawl reported success and the upload returned True, and gives False
\* whenever the crawl gave a failure result or the upload returned False.
C19_TrueOnlyIfCrawlSucceeded ==
    (entry_point = "cli" /\ w_pc = "done" /\ pc = "returned") =>
        /\ w_result = "True" => (CrawlSucceeded /\ u_result = "True")
        /\ (~CrawlSucceeded \/ u_result = "False") => w_result = "False"

(***************************************************************************)
(* The login gate.                                                         *)
(***************************************************************************)
\* What holds of the login wait in every state: the time waited is a number
\* of 3-second polls, at most 100 of them; the wait goes on only while the
\* last read saw the indicator and time is left, and is left as soon as a poll
\* saw it gone or the ceiling is reached; a run that reported the login
\* timeout has not scrolled, extracted, downloaded or written the summary.
LoginGateState ==
    /\ waited_time \in 0..max_wait_time
    /\ waited_time % wait_interval = 0
    /\ waited_time \div wait_interval <= 100
    /\ pc = "login_wait" => (login_wall /\ waited_time < max_wait_time /\ ENABLED LoginPoll)
    /\ pc = "login_final" => (~login_wall \/ waited_time = max_wait_time)
    /\ (pc = "returned" /\ result.kind = "None") =>
        /\ login_wall
        /\ ~extracted /\ all_images = <<>> /\ outcomes = <<>>
        /\ scrollY = 0 /\ attempts = 0 /\ current_scroll = 0
        /\ summary_writes = 0

\* Every poll adds 3 seconds to the time waited
PollAdvances ==
    (pc = "login_wait" /\ waited_time' # waited_time) =>
        waited_time' = waited_time + wait_interval

\* After a poll that saw the indicator gone, the run goes on to the content
\* (or ends on an error of the browser session)
PollGoneProceeds ==
    (pc = "login_final" /\ ~login_wall /\ pc' # pc) => (pc' = "scroll" \/ result'.error)

\* After the wait, the read of the final check decides: indicator gone, the run
\* goes on to the content; indicator present, it reports the login timeout
FinalReadDecides ==
    (pc = "login_final" /\ pc' # pc) =>
        \/ ~login_wall' /\ pc' = "scroll"
        \/ login_wall' /\ pc' = "returned" /\ result'.kind = "None"
        \/ pc' = "returned" /\ result'.error

ScrollLoopState ==
    /\ pc = "scroll_loop" =>
        /\ attempts \in 0..MaxScrollAttempts
        /\ current_scroll = attempts * window_height
        /\ ENABLED ScrollStep
    /\ pc = "extract" => scrollY = 0

\* A step of the loop that stays in the loop is one more attempt and one more
\* increment, whatever the height read (a larger height included)
ScrollCounts ==
    (pc = "scroll_loop" /\ pc' = "scroll_loop" /\ attempts' # attempts) =>
        /\ attempts' = attempts + 1
        /\ current_scroll' = current_scroll + window_height
        /\ current_scroll' < doc_height'

\* The loop is left with attempts to spare exactly when the offset scrolled to
\* reaches the height read after the scroll; it is left in any case when the
\* attempts are used up; leaving it scrolls back to the top
ScrollStops ==
    /\ (pc = "scroll_loop" /\ pc' = "extract") =>
        /\ scrollY' = 0
        /\ attempts = MaxScrollAttempts \/ current_scroll + window_height >= doc_height'
    /\ (pc = "scroll_loop" /\ attempts < MaxScrollAttempts
            /\ (pc' = "extract" \/ attempts' # attempts)) =>
        (pc' = "extract" <=> current_scroll + window_height >= doc_height')
    /\ (pc = "scroll_loop" /\ attempts = MaxScrollAttempts /\ pc' # pc) =>
        (pc' = "extract" \/ result'.error)

MaxCalls == 2

URL_A_LIST == URL_A \o <<",">> \o URL_B \o <<" ", "2", "x">>
URL_A_LEADING == <<" ">> \o URL_A

\* Containers that tell the extraction rules apart, besides those of Catalogue
PicBoth == Picture(TRUE, URL_A \o <<" ", "2", "x">>, TRUE, URL_B, URL_D, HalfLife, Null)
PicList == Picture(TRUE, URL_A_LIST, TRUE, URL_D, Null, Portal, Null)
PicLeading == Picture(TRUE, URL_A_LEADING, FALSE, Null, Null, Null, Null)
PicEmptySrcset == Picture(TRUE, <<>>, TRUE, URL_B, Null, Portal, Null)
PicSrcAndData == Picture(FALSE, Null, TRUE, URL_B, URL_D, Portal, Null)
PicEmptySrc == Picture(FALSE, Null, TRUE, <<>>, URL_D, Portal, Null)
PicSourceOnly == Picture(TRUE, Null, FALSE, Null, Null, Null, Null)

ExtractCatalogue ==
    {PicBoth, PicList, PicLeading, PicEmptySrcset, PicSrcAndData, PicEmptySrc,
     PicSourceOnly, PicNoSrc, PicRelative, PicBare}

\* Every page of at most MaxPictures of these containers
ExtractPages == UNION {[1..n -> ExtractCatalogue] : n \in 0..MaxPictures}

\* One call of extract_images on the open page
ExtractCall ==
    /\ e_pc = "open"
    /\ Len(e_calls) < MaxCalls
    /\ e_calls' = Append(e_calls, extract_images(e_page))
    /\ UNCHANGED <<e_pc, e_page>>
    /\ UNCHANGED <<scraperVars, uploadVars, fsVars, workflowVars, guiVars, logVars>>

ExtractInit ==
    /\ pc = "idle"
    /\ driver_open = TRUE
    /\ ScraperFresh
    /\ url = <<>>
    /\ disk = EmptyDir
    /\ output_folder = STEAM_IMAGES
    /\ disk_exists = TRUE
    /\ other_folder = MissingFolder
    /\ images_folder = STEAM_IMAGES
    /\ u_pc = "idle"
    /\ UploadFresh
    /\ WorkflowIdle
    /\ e_pc = "open"
    /\ e_page \in ExtractPages
    /\ e_calls = <<>>
    /\ GuiIdle
    /\ LogIdle

ExtractNext == ExtractCall

SpecExtract == ExtractInit /\ [][ExtractNext]_vars

\* u is what precedes the first whitespace or comma of srcset
IsFirstToken(u, srcset) ==
    /\ Len(u) <= Len(srcset)
    /\ u = SubSeq(srcset, 1, Len(u))
    /\ \A k \in 1..Len(u) : ~IsSpace(u[k]) /\ u[k] # ","
    /\ Len(u) < Len(srcset) => (IsSpace(srcset[Len(u) + 1]) \/ srcset[Len(u) + 1] = ",")

\* u is the URL the container p stands for
Refers(p, u) ==
    IF p.hasSource /\ p.srcset # Null /\ p.srcset # <<>>
    THEN IsFirstToken(u, p.srcset)
    ELSE /\ p.hasImg
         /\ u = (IF p.src # Null /\ p.src # <<>> THEN p.src ELSE p.data_src)

\* The container p names a URL somewhere
HasReference(p) ==
    \/ p.hasSource /\ p.srcset # Null /\ p.srcset # <<>>
    \/ p.hasImg /\ ((p.src # Null /\ p.src # <<>>) \/ (p.data_src # Null /\ p.data_src # <<>>))

\* The list refs is made of the containers of page, one record per container
\* at most and in their order
InDocumentOrder(refs, page) ==
    \E f \in [1..Len(refs) -> 1..Len(page)] :
        /\ \A a, b \in 1..Len(refs) : a < b => f[a] < f[b]
        /\ \A j \in 1..Len(refs) : Refers(page[f[j]], refs[j].src)
        /\ \A k \in 1..Len(page) : HasReference(page[k]) => \E j \in 1..Len(refs) : f[j] = k

C24_NoNullOrEmptyUrl ==
    \A c \in 1..Len(e_calls) : \A j \in 1..Len(e_calls[c]) :
        e_calls[c][j].src # Null /\ e_calls[c][j].src # <<>>
(***************************************************************************)
(* The acquisition of the upload control (C25, C26).                       *)
(***************************************************************************)
\* The positions after the first strategy and before the files are listed
LaterStrategyPcs == {"strategy2", "find_buttons", "buttons", "action_div", "dump", "final_check"}

\* A strategy is about to begin only while no earlier one has yielded the
\* control (the clicks of the heuristic strategy are one strategy), and the
\* strategies come in their order
LaterOnlyAfterFailure ==
    /\ u_pc \in {"strategy2", "find_buttons", "dump", "final_check"} => located = <<>>
    /\ u_pc = "strategy2" => (clicked = <<>> /\ ~dumped)
    /\ u_pc \in {"find_buttons", "buttons", "action_div"} => ~dumped

\* The upload leaves the strategies with False only from the final lookup,
\* after the listing of the inputs, and nothing was submitted
NotFoundOnlyAtTheEnd ==
    (u_pc \in LaterStrategyPcs \ {"strategy2"} /\ u_pc' = "returned") =>
        /\ u_pc = "final_check"
        /\ dumped
        /\ u_result' = "False"
        /\ submitted' = <<>>

\* C25: the strategies run in the order id lookup, attribute selector,
\* heuristic clicks, listing of the inputs plus final id lookup; a later one is
\* attempted only if every earlier one failed, and the not-found False is
\* returned only after all four.
C25_LaterStrategyOnlyAfterFailure ==
    /\ []LaterOnlyAfterFailure
    /\ [][NotFoundOnlyAtTheEnd]_vars

\* C26: once a click of the heuristic strategy has made the control findable,
\* no further candidate is clicked, the action container included.
C26_ClickingStopsAtFirstSuccess ==
    [][clicked' # clicked => ~ClickLocated]_vars
(***************************************************************************)
(* The window and its workers: start_process, stop_process, finish_process *)
(* and reload_app run on the main thread, run_workflow on the threads      *)
(* start_process starts.  A worker reads is_running at its phase           *)
(* boundaries; a step of a worker is the phase it runs followed by that    *)
(* read.  The log entries the handlers and the workers put are followed    *)
(* in SpecLog.                                                             *)
(***************************************************************************)
MaxWorkers == 2

\* A thread start_process has just started
NewWorker == [pc |-> "start", stopped |-> FALSE, uploads |-> FALSE]

\* The worker w moves to position p
WorkerGoes(w, p) == threads' = [threads EXCEPT ![w].pc = p]

\* What the main-thread handlers and the workers of the window leave alone
GuiFrame ==
    /\ UNCHANGED <<scraperVars, uploadVars, fsVars, extractVars, logVars>>
    /\ UNCHANGED <<entry_point, w_pc, reported, w_result>>

\* setup_gui lines 340-346: the buttons are created, Start enabled, Stop disabled
SetupButtons ==
    /\ run_button' = "normal"
    /\ stop_button' = "disabled"

\* lines 407-439, start_process: the Start button
start_process ==
    /\ run_button = "normal"
    /\ \/ /\ is_running
          /\ UNCHANGED <<is_running, guiVars>>
       \/ /\ ~is_running
          /\ UNCHANGED <<is_running, guiVars>>
       \/ /\ ~is_running
          /\ Len(threads) < MaxWorkers
          /\ is_running' = TRUE
          /\ run_button' = "disabled"
          /\ stop_button' = "normal"
          /\ threads' = Append(threads, NewWorker)
          /\ UNCHANGED after_calls
    /\ GuiFrame

\* lines 447-452, finish_process
FinishProcess ==
    /\ is_running' = FALSE
    /\ run_button' = "normal"
    /\ stop_button' = "disabled"

\* lines 441-445, stop_process: the Stop button. Every worker that is inside
\* its scrape phase is marked as stopped there.
stop_process ==
    /\ stop_button = "normal"
    /\ FinishProcess
    /\ threads' = [w \in DOMAIN threads |->
                     IF threads[w].pc = "scrape"
                     THEN [threads[w] EXCEPT !.stopped = TRUE]
                     ELSE threads[w]]
    /\ UNCHANGED after_calls
    /\ GuiFrame

\* The callback a worker posted at line 536 runs finish_process
finish_process ==
    /\ after_calls > 0
    /\ after_calls' = after_calls - 1
    /\ FinishProcess
    /\ UNCHANGED threads
    /\ GuiFrame

\* lines 166-202, reload_app, as the workers see it: setup_gui creates the
\* buttons anew
GuiReload ==
    /\ SetupButtons
    /\ UNCHANGED <<is_running, threads, after_calls>>
    /\ GuiFrame

\* lines 455-476: the scraper is constructed and configured, then is_running
\* is read
WorkerStart(w) ==
    /\ threads[w].pc = "start"
    /\ WorkerGoes(w, IF is_running THEN "scrape" ELSE "finally")
    /\ UNCHANGED <<is_running, after_calls, run_button, stop_button>>
    /\ GuiFrame

\* lines 478-485: scrape_images runs to its end, then is_running is read; when
\* it is false the scraper is closed and the worker returns
WorkerScrape(w) ==
    /\ threads[w].pc = "scrape"
    /\ WorkerGoes(w, IF is_running THEN "report" ELSE "finally")
    /\ UNCHANGED <<is_running, after_calls, run_button, stop_button>>
    /\ GuiFrame

\* lines 487-519: the summary is logged, the scraper closed, the uploader
\* constructed, is_running is read and, when it is true, the upload is called
WorkerReport(w) ==
    /\ threads[w].pc = "report"
    /\ IF is_running
       THEN threads' = [threads EXCEPT ![w].pc = "upload", ![w].uploads = TRUE]
       ELSE WorkerGoes(w, "finally")
    /\ UNCHANGED <<is_running, after_calls, run_button, stop_button>>
    /\ GuiFrame

\* lines 519-529: upload_images_to_tiermaker runs to its end
WorkerUpload(w) ==
    /\ threads[w].pc = "upload"
    /\ WorkerGoes(w, "finally")
    /\ UNCHANGED <<is_running, after_calls, run_button, stop_button>>
    /\ GuiFrame

\* lines 531-534: an exception of any phase is logged
WorkerRaises(w) ==
    /\ threads[w].pc \in {"start", "scrape", "report", "upload"}
    /\ WorkerGoes(w, "finally")
    /\ UNCHANGED <<is_running, after_calls, run_button, stop_button>>
    /\ GuiFrame

\* lines 535-536: finish_process is posted to the main thread and the thread ends
WorkerFinally(w) ==
    /\ threads[w].pc = "finally"
    /\ WorkerGoes(w, "done")
    /\ after_calls' = after_calls + 1
    /\ UNCHANGED <<is_running, run_button, stop_button>>
    /\ GuiFrame

\* lines 30-55, __init__: the window is set up, nothing runs
GuiInit ==
    /\ pc = "idle"
    /\ driver_open = FALSE
    /\ ScraperFresh
    /\ url = <<>>
    /\ disk = EmptyDir
    /\ output_folder = STEAM_IMAGES
    /\ disk_exists = TRUE
    /\ other_folder = MissingFolder
    /\ images_folder = STEAM_IMAGES
    /\ u_pc = "idle"
    /\ UploadFresh
    /\ WorkflowIdle
    /\ ExtractIdle
    /\ GuiIdle
    /\ LogIdle

GuiNext ==
    \/ start_process
    \/ stop_process
    \/ finish_process
    \/ GuiReload
    \/ \E w \in DOMAIN threads :
        \/ WorkerStart(w)
        \/ WorkerScrape(w)
        \/ WorkerReport(w)
        \/ WorkerUpload(w)
        \/ WorkerRaises(w)
        \/ WorkerFinally(w)

SpecGui == GuiInit /\ [][GuiNext]_vars

\* The worker w is still executing run_workflow
Alive(w) == threads[w].pc # "done"

\* C27: a worker whose scrape phase was in progress when Stop was requested
\* never begins the upload.
C27_StopDuringScrapeCancels ==
    \A w \in DOMAIN threads : threads[w].stopped => ~threads[w].uploads

\* C28: at most one worker is executing run_workflow at any time, and
\* is_running is true whenever one is.
C28_AtMostOneWorker ==
    /\ Cardinality({w \in DOMAIN threads : Alive(w)}) <= 1
    /\ \A w \in DOMAIN threads : Alive(w) => is_running
(***************************************************************************)
(* The log queue: any thread puts entries with log_message; the main       *)
(* thread takes them in process_log_queue, which runs as a callback of the *)
(* event loop and schedules itself again, and which __init__ and           *)
(* reload_app call directly.  An entry is the number of its put.           *)
(***************************************************************************)
MaxMessages == 4
MaxChains == 2

\* What the log handlers leave alone
LogFrame ==
    /\ UNCHANGED <<scraperVars, uploadVars, fsVars, workflowVars, extractVars>>
    /\ UNCHANGED <<threads, after_calls>>

\* lines 379-383, log_message: queue.put, from the main thread or a worker
log_message ==
    /\ put_count < MaxMessages
    /\ put_count' = put_count + 1
    /\ log_queue' = Append(log_queue, put_count + 1)
    /\ UNCHANGED <<log_text, shown, main_pc, message, chains, run_button, stop_button>>
    /\ LogFrame

\* line 396 taking effect: the event loop runs a scheduled process_log_queue
process_log_queue ==
    /\ main_pc = "idle"
    /\ chains > 0
    /\ chains' = chains - 1
    /\ main_pc' = "polling"
    /\ UNCHANGED <<log_queue, log_text, shown, put_count, message, run_button, stop_button>>
    /\ LogFrame

\* A faulty variant of get_nowait: the entry is read and left on the queue
get_nowait_peek ==
    /\ main_pc = "polling"
    /\ IF log_queue # <<>>
       THEN /\ message' = Head(log_queue)
            /\ main_pc' = "insert"
            /\ UNCHANGED <<log_queue, chains>>
       ELSE /\ chains' = chains + 1
            /\ main_pc' = "idle"
            /\ UNCHANGED <<log_queue, message>>
    /\ UNCHANGED <<log_text, shown, put_count, run_button, stop_button>>
    /\ LogFrame

\* lines 387-396: get_nowait takes the oldest entry; on queue.Empty the loop
\* ends and the next poll is scheduled
get_nowait ==
    /\ main_pc = "polling"
    /\ IF log_queue # <<>>
       THEN /\ message' = Head(log_queue)
            /\ log_queue' = Tail(log_queue)
            /\ main_pc' = "insert"
            /\ UNCHANGED chains
       ELSE /\ chains' = chains + 1
            /\ main_pc' = "idle"
            /\ UNCHANGED <<log_queue, message>>
    /\ UNCHANGED <<log_text, shown, put_count, run_button, stop_button>>
    /\ LogFrame

\* lines 390-391: the entry taken is appended to the log widget
insert ==
    /\ main_pc = "insert"
    /\ log_text' = Append(log_text, message)
    /\ shown' = Append(shown, message)
    /\ message' = 0
    /\ main_pc' = "polling"
    /\ UNCHANGED <<log_queue, put_count, chains, run_button, stop_button>>
    /\ LogFrame

\* lines 398-400, clear_log: the Clear button, and start_process at line 435
clear_log ==
    /\ main_pc = "idle"
    /\ log_text # <<>>
    /\ log_text' = <<>>
    /\ UNCHANGED <<log_queue, shown, put_count, main_pc, message, chains,
                   run_button, stop_button>>
    /\ LogFrame

\* lines 166-202, reload_app: the widgets are destroyed, setup_gui creates new
\* ones (an empty log widget among them) and process_log_queue is called,
\* which starts one more chain of polls beside those already scheduled
reload_app ==
    /\ main_pc = "idle"
    /\ chains < MaxChains
    /\ SetupButtons
    /\ log_text' = <<>>
    /\ main_pc' = "polling"
    /\ UNCHANGED <<log_queue, shown, put_count, message, chains>>
    /\ LogFrame

\* lines 48-55, __init__: the queue is created empty and process_log_queue is
\* called
LogInit ==
    /\ pc = "idle"
    /\ driver_open = FALSE
    /\ ScraperFresh
    /\ url = <<>>
    /\ disk = EmptyDir
    /\ output_folder = STEAM_IMAGES
    /\ disk_exists = TRUE
    /\ other_folder = MissingFolder
    /\ images_folder = STEAM_IMAGES
    /\ u_pc = "idle"
    /\ UploadFresh
    /\ WorkflowIdle
    /\ ExtractIdle
    /\ GuiIdle
    /\ log_queue = <<>>
    /\ log_text = <<>>
    /\ shown = <<>>
    /\ put_count = 0
    /\ main_pc = "polling"
    /\ message = 0
    /\ chains = 0

LogNext ==
    \/ log_message
    \/ process_log_queue
    \/ get_nowait
    \/ insert
    \/ clear_log
    \/ reload_app

\* The event loop keeps running the scheduled polls, and a poll that has begun
\* goes on
SpecLog ==
    /\ LogInit
    /\ [][LogNext]_vars
    /\ WF_vars(process_log_queue)
    /\ WF_vars(get_nowait)
    /\ WF_vars(insert)

\* The entries put so far, in the order of their puts
Enqueued == [k \in 1..put_count |-> k]

\* The entry the poll holds between get_nowait and insert
InHand == IF main_pc = "insert" THEN <<message>> ELSE <<>>

\* What was displayed, what is in hand and what waits are the entries put, in
\* the order of their puts: nothing lost, nothing twice
LogConserved == shown \o InHand \o log_queue = Enqueued

\* C29: every entry put on the log queue is displayed, exactly once and in the
\* order of the puts, as long as the event loop keeps running the polls; also
\* when reload_app has started one more chain of polls.
C29_LogDisplayedOnceInOrder ==
    /\ []LogConserved
    /\ \A m \in 1..MaxMessages : (put_count >= m) ~> (Len(shown) >= m /\ shown[m] = m)

C29_Witness ==
    /\ chains = 2
    /\ main_pc = "idle"
    /\ shown = Enqueued
    /\ put_count = MaxMessages
    /\ log_text = <<MaxMessages>>
(***************************************************************************)
(* The browser session of the scraper (C30).                               *)
(***************************************************************************)
\* scrape_images entered with a URL has returned: the session was quit
ClosedOnReturn == (pc = "returned" /\ url # <<>>) => ~driver_open

\* Wherever the next step calls the session, the session is open
OpenWhileUsed == pc \in DriverPcs => driver_open

\* Once the session is quit the method is at no other position and the page is
\* not scrolled, read or navigated
NothingAfterClose == ~driver_open => UNCHANGED <<pc, pageVars, scrollLocals, extracted>>

\* C30: scrape_images entered with a non-empty URL has closed the browser
\* session when it returns, on every return path, and issues no call on the
\* session after closing it.
C30_SessionClosedOnEveryReturn ==
    /\ []ClosedOnReturn
    /\ []OpenWhileUsed
    /\ [][NothingAfterClose]_vars

C30_Witness ==
    /\ pc = "returned"
    /\ url # <<>>
    /\ result.error
    /\ outcomes # <<>>
    /\ ~driver_open
====
